---- MODULE Spec2Model ----
(***************************************************************************)
(* Model of the BME280/BMP280 read-and-compensate routine read_bme280 as   *)
(* it appears in test_temp_sensors.py and test_temperature.py.             *)
(*                                                                         *)
(* Python floats are IEEE-754 binary64.  They are modelled exactly: a      *)
(* float is a sign, an arbitrary-precision natural mantissa and a binary   *)
(* exponent, and every arithmetic operation computes the exact result and  *)
(* rounds it to 53 significant bits, ties to even.  Exponent overflow and  *)
(* subnormals are not modelled: the magnitudes the routine produces from   *)
(* byte inputs stay far inside the normal range.                           *)
(***************************************************************************)
EXTENDS Integers, Sequences, FiniteSets, TLC

----------------------------------------------------------------------------
(* Arbitrary-precision naturals: little-endian sequences of base-2^15      *)
(* limbs without leading zero limbs; <<>> is zero.                         *)

Base == 32768
LimbBits == 15

\* 2^n for n in 0..30
Pow2(n) ==
    <<1, 2, 4, 8, 16, 32, 64, 128, 256, 512, 1024, 2048, 4096, 8192, 16384, 32768,
      65536, 131072, 262144, 524288, 1048576, 2097152, 4194304, 8388608, 16777216,
      33554432, 67108864, 134217728, 268435456, 536870912, 1073741824>>[n + 1]

\* limb i of a, zero above its top limb
NLimb(a, i) == IF i <= Len(a) THEN a[i] ELSE 0

\* a without the zero limbs at its top
NTop(a) ==
    IF \A i \in 1..Len(a) : a[i] = 0 THEN 0
    ELSE CHOOSE i \in 1..Len(a) : a[i] # 0 /\ \A j \in (i + 1)..Len(a) : a[j] = 0
NNorm(a) == SubSeq(a, 1, NTop(a))

RECURSIVE NFromInt(_)
NFromInt(n) == IF n = 0 THEN <<>> ELSE <<n % Base>> \o NFromInt(n \div Base)

RECURSIVE NToInt(_)
NToInt(a) == IF a = <<>> THEN 0 ELSE a[1] + Base * NToInt(Tail(a))

NMaxLen(a, b) == IF Len(a) < Len(b) THEN Len(b) ELSE Len(a)

\* whether a carry enters limb i of a + b: a limb below it overflows and
\* every limb between the two passes the carry on
NCarry(a, b, i) ==
    \E j \in 1..(i - 1) :
        /\ NLimb(a, j) + NLimb(b, j) >= Base
        /\ \A k \in (j + 1)..(i - 1) : NLimb(a, k) + NLimb(b, k) = Base - 1

NAddLimb(a, b, i) ==
    (NLimb(a, i) + NLimb(b, i) + (IF NCarry(a, b, i) THEN 1 ELSE 0)) % Base

NAdd(a, b) == NNorm([i \in 1..(NMaxLen(a, b) + 1) |-> NAddLimb(a, b, i)])

\* whether limb i of a - b borrows from the limb above it
NBorrow(a, b, i) ==
    \E j \in 1..(i - 1) :
        /\ NLimb(a, j) < NLimb(b, j)
        /\ \A k \in (j + 1)..(i - 1) : NLimb(a, k) = NLimb(b, k)

NSubLimb(a, b, i) ==
    (NLimb(a, i) - NLimb(b, i) - (IF NBorrow(a, b, i) THEN 1 ELSE 0) + Base) % Base

\* a - b for a >= b
NSub(a, b) == NNorm([i \in 1..Len(a) |-> NSubLimb(a, b, i)])

\* the sign of a - b at the highest limb where they differ, for equal lengths
NCmpAt(a, b, i) == IF a[i] < b[i] THEN -1 ELSE 1

NDiffer(a, b) == \E i \in 1..Len(a) : a[i] # b[i]

\* -1, 0 or 1 as a < b, a = b, a > b
NCmp(a, b) ==
    IF Len(a) < Len(b) THEN -1
    ELSE IF Len(a) > Len(b) THEN 1
    ELSE IF ~NDiffer(a, b) THEN 0
    ELSE NCmpAt(a, b, CHOOSE i \in 1..Len(a) :
                          a[i] # b[i] /\ \A j \in (i + 1)..Len(a) : a[j] = b[j])

\* a * d for a digit d: the low halves of the limb products plus their high
\* halves one limb up
NMulSmall(a, d) ==
    IF d = 0 THEN <<>>
    ELSE NAdd([i \in 1..Len(a) |-> (a[i] * d) % Base],
              <<0>> \o [i \in 1..Len(a) |-> (a[i] * d) \div Base])

RECURSIVE NMul(_, _)
NMul(a, b) ==
    IF a = <<>> \/ b = <<>> THEN <<>>
    ELSE NAdd(NMulSmall(a, b[1]), <<0>> \o NMul(a, Tail(b)))

Zeros(n) == [i \in 1..n |-> 0]

\* a * 2^k
NShl(a, k) ==
    IF a = <<>> THEN <<>>
    ELSE Zeros(k \div LimbBits) \o NMulSmall(a, Pow2(k % LimbBits))

\* floor(a / 2^s) for s < LimbBits: each limb takes the low bits of the limb
\* above it
NShrBits(a, s) ==
    NNorm([i \in 1..Len(a) |->
              (a[i] \div Pow2(s)) + (NLimb(a, i + 1) % Pow2(s)) * Pow2(LimbBits - s)])

\* floor(a / 2^k)
NShr(a, k) ==
    IF k \div LimbBits >= Len(a) THEN <<>>
    ELSE NShrBits(SubSeq(a, (k \div LimbBits) + 1, Len(a)), k % LimbBits)

\* n.bit_length() for 0 <= n < 2^30
BitLenInt(n) == CHOOSE k \in 0..30 : n < Pow2(k) /\ (k = 0 \/ n >= Pow2(k - 1))

NBitLen(a) == IF a = <<>> THEN 0 ELSE LimbBits * (Len(a) - 1) + BitLenInt(a[Len(a)])

NIsOdd(a) == a # <<>> /\ a[1] % 2 = 1

NFits(b, d, r) == NCmp(NMulSmall(b, d), r) <= 0

\* the largest of d, d - 1, d - 2 whose product with b is at most r
NQuotFrom(r, b, d) ==
    IF NFits(b, d, r) THEN d ELSE IF NFits(b, d - 1, r) THEN d - 1 ELSE d - 2

\* the largest digit d < Base with b * d <= r, for r < b * Base and b with
\* its top bit set: the two top limbs of r over the top limb of b give a
\* digit that is at most 2 too large
NQuotGuess(r, b, n) == (NLimb(r, n + 1) * Base + NLimb(r, n)) \div b[n]
NQuotCap(g) == IF g > Base - 1 THEN Base - 1 ELSE g
NQuotDigit(r, b) == NQuotFrom(r, b, NQuotCap(NQuotGuess(r, b, Len(b))))

\* schoolbook long division of a by b, one limb of a at a time from the top;
\* r < b is the running remainder and q the quotient limbs found so far.  A
\* zero digit leaves the remainder as it is.
RECURSIVE NDivAt(_, _, _, _, _)
NDivStep(a, b, i, r1, q, d) ==
    IF d = 0 THEN NDivAt(a, b, i - 1, r1, <<0>> \o q)
    ELSE NDivAt(a, b, i - 1, NSub(r1, NMulSmall(b, d)), <<d>> \o q)
NDivLimb(a, b, i, r1, q) == NDivStep(a, b, i, r1, q, NQuotDigit(r1, b))
NDivAt(a, b, i, r, q) ==
    IF i = 0 THEN <<NNorm(q), r>>
    ELSE NDivLimb(a, b, i, NNorm(<<a[i]>> \o r), q)

\* the top limbs of a that are fewer than the limbs of b start as the
\* remainder: their quotient digits are zero
NDivTop(a, b, n) == NDivAt(a, b, Len(a) - n, NNorm(SubSeq(a, Len(a) - n + 1, Len(a))), <<>>)
NDivNorm(a, b) ==
    NDivTop(a, b, IF Len(a) < Len(b) THEN Len(a) ELSE Len(b) - 1)

\* a and b scaled by 2^s, which sets the top bit of b and keeps the quotient
NDivRest(qr, s) == <<qr[1], NShr(qr[2], s)>>
NDivScaled(a, b, s) == NDivRest(NDivNorm(NShl(a, s), NShl(b, s)), s)

\* <<floor(a / b), a mod b>> for b # 0
NDivMod(a, b) == NDivScaled(a, b, LimbBits - BitLenInt(b[Len(b)]))

----------------------------------------------------------------------------
(* IEEE-754 binary64 values.  A float is [s, m, e] with value s * m * 2^e, *)
(* s in {1, -1}, m an odd natural (or zero, then s = 1 and e = 0).         *)

MantBits == 53

FZero == [s |-> 1, m |-> <<>>, e |-> 0]

\* the number of zero bits at the low end of the limb n # 0
LowZeros(n) == CHOOSE k \in 0..(LimbBits - 1) : n % Pow2(k) = 0 /\ (n \div Pow2(k)) % 2 = 1

\* strip zero limbs, then zero bits, from the low end of an exact mantissa
RECURSIVE FStrip(_, _, _)
FStripBits(s, m, e, k) == [s |-> s, m |-> NShr(m, k), e |-> e + k]
FStrip(s, m, e) ==
    IF m = <<>> THEN FZero
    ELSE IF m[1] = 0 THEN FStrip(s, Tail(m), e + LimbBits)
    ELSE FStripBits(s, m, e, LowZeros(m[1]))

\* the float nearest to the exact value s * m * 2^e, ties to even; q is m
\* without its k low bits
FRoundCut(s, m, e, k, q) ==
    LET c == NCmp(NSub(m, NShl(q, k)), NShl(<<1>>, k - 1))
    IN  FStrip(s, IF c > 0 \/ (c = 0 /\ NIsOdd(q)) THEN NAdd(q, <<1>>) ELSE q, e + k)

FRoundLen(s, m, e, L) ==
    IF L <= MantBits THEN FStrip(s, m, e)
    ELSE FRoundCut(s, m, e, L - MantBits, NShr(m, L - MantBits))

FRound(s, m, e) == FRoundLen(s, m, e, NBitLen(m))

\* float(n) for a Python int n with |n| < 2^53: exact
F(n) == FStrip(IF n < 0 THEN -1 ELSE 1, NFromInt(IF n < 0 THEN -n ELSE n), 0)

\* the literal 2.0 ** k
FPow2(k) == [s |-> 1, m |-> <<1>>, e |-> k]

FIsZero(x) == x.m = <<>>

FNeg(x) == IF FIsZero(x) THEN x ELSE [x EXCEPT !.s = -x.s]

\* the sum of sx * mx * 2^e and sy * my * 2^e; c compares mx with my
FAddAligned(sx, mx, sy, my, e, c) ==
    IF sx # sy /\ c = 0 THEN FZero
    ELSE FRound(IF sx = sy \/ c > 0 THEN sx ELSE sy,
                IF sx = sy THEN NAdd(mx, my)
                ELSE IF c > 0 THEN NSub(mx, my) ELSE NSub(my, mx),
                e)

FAddAt(x, y, e, mx, my) == FAddAligned(x.s, mx, y.s, my, e, NCmp(mx, my))

FAddExp(x, y, e) == FAddAt(x, y, e, NShl(x.m, x.e - e), NShl(y.m, y.e - e))

FAdd(x, y) ==
    IF FIsZero(x) THEN y
    ELSE IF FIsZero(y) THEN x
    ELSE FAddExp(x, y, IF x.e < y.e THEN x.e ELSE y.e)

FSub(x, y) == FAdd(x, FNeg(y))

FMul(x, y) ==
    IF FIsZero(x) \/ FIsZero(y) THEN FZero
    ELSE FRound(x.s * y.s, NMul(x.m, y.m), x.e + y.e)

\* the quotient qr[1] with a sticky bit for a non-zero remainder qr[2]
FDivSticky(s, e, qr) ==
    FRound(s,
           IF qr[2] = <<>> THEN qr[1] ELSE NAdd(NShl(qr[1], 1), <<1>>),
           IF qr[2] = <<>> THEN e ELSE e - 1)

FDivShift(x, y, k) == FDivSticky(x.s * y.s, x.e - y.e - k, NDivMod(NShl(x.m, k), y.m))

FDivBits(x, y, d) == FDivShift(x, y, IF d > 0 THEN d ELSE 0)

\* x / y for y # 0: the quotient to at least 56 bits, then rounded
FDiv(x, y) ==
    IF FIsZero(x) THEN FZero
    ELSE IF y.m = <<1>> THEN [s |-> x.s * y.s, m |-> x.m, e |-> x.e - y.e]
    ELSE FDivBits(x, y, 56 + NBitLen(y.m) - NBitLen(x.m))

\* x < y
FNegative(d) == ~FIsZero(d) /\ d.s = -1
FLt(x, y) == FNegative(FSub(x, y))

\* int(x): truncation toward zero
FTrunc(x) ==
    IF FIsZero(x) THEN 0
    ELSE IF x.e >= 0 THEN x.s * NToInt(NShl(x.m, x.e))
    ELSE x.s * NToInt(NShr(x.m, -x.e))

----------------------------------------------------------------------------
(* Python integer operators on non-negative operands.                      *)

Byte == 0..255

Shl(a, n) == a * Pow2(n)
Shr(a, n) == a \div Pow2(n)

\* a | b and a & b on the w low bits, w a power of two: the low half of the
\* bits and the high half combine independently
RECURSIVE BitOrW(_, _, _)
BitOrW(a, b, w) ==
    IF a = 0 THEN b
    ELSE IF b = 0 THEN a
    ELSE IF w = 1 THEN 1
    ELSE BitOrW(a % Pow2(w \div 2), b % Pow2(w \div 2), w \div 2)
         + Pow2(w \div 2) * BitOrW(a \div Pow2(w \div 2), b \div Pow2(w \div 2), w \div 2)

RECURSIVE BitAndW(_, _, _)
BitAndW(a, b, w) ==
    IF a = 0 \/ b = 0 THEN 0
    ELSE IF w = 1 THEN 1
    ELSE BitAndW(a % Pow2(w \div 2), b % Pow2(w \div 2), w \div 2)
         + Pow2(w \div 2) * BitAndW(a \div Pow2(w \div 2), b \div Pow2(w \div 2), w \div 2)

\* operands below 2^32
BitOr(a, b) == BitOrW(a, b, 32)

BitAnd(a, b) == BitAndW(a, b, 32)

\* a faulty variant of UnpackH: the pair read as unsigned ('<H')
UnpackH_Unsigned(b0, b1) == b0 + 256 * b1

\* struct.unpack('<h', bytes([b0, b1]))[0]: the 16-bit little-endian word,
\* bit 15 weighing -2^15
UnpackH(b0, b1) ==
    LET w == b0 + Shl(b1, 8)
    IN  IF Shr(w, 15) = 1 THEN (w % 32768) - 32768 ELSE w

\* struct.unpack('<b', bytes([b0]))[0]: bit 7 weighing -2^7
UnpackB(b0) == IF Shr(b0, 7) = 1 THEN (b0 % 128) - 128 ELSE b0

\* f'{b:02X}': two upper-case hexadecimal digits for a byte
HexDigits == <<"0", "1", "2", "3", "4", "5", "6", "7",
               "8", "9", "A", "B", "C", "D", "E", "F">>
Hex02X(b) == <<HexDigits[(b \div 16) + 1], HexDigits[(b % 16) + 1]>>

\* Python's None
None == [none |-> TRUE]

\* l[i] for a Python list l and a 0-based index i < len(l)
At(l, i) == l[i + 1]

----------------------------------------------------------------------------
(* The two scripts that define read_bme280.                                *)

TempSensors == "test_temp_sensors"
Temperature == "test_temperature"
Scripts == {TempSensors, Temperature}

CHIP_ID_BME280 == 96
CHIP_ID_BMP280 == 88

\* a faulty variant of IsBmp280: every chip that is not a BME280 is accepted
IsBmp280_AnyOther(chip_id) == chip_id # CHIP_ID_BME280

IsBme280(chip_id) == chip_id = CHIP_ID_BME280
IsBmp280(chip_id) == chip_id = CHIP_ID_BMP280

REG_CHIP_ID == 208
REG_RESET == 224
REG_CAL_TP == 136
REG_CAL_H == 225
REG_CTRL_HUM == 242
REG_CTRL_MEAS == 244
REG_CONFIG == 245
REG_DATA == 247

LEN_CAL_TP == 24
LEN_CAL_H == 7
LEN_DATA == 8

----------------------------------------------------------------------------
(* Calibration parse.  Each field is decoded from the listed 0-based       *)
(* indices of cal, read in the listed order.                               *)

TPFields == <<
    [name |-> "dig_T1", kind |-> "u16", idx |-> <<0, 1>>],
    [name |-> "dig_T2", kind |-> "h",   idx |-> <<2, 3>>],
    [name |-> "dig_T3", kind |-> "h",   idx |-> <<4, 5>>],
    [name |-> "dig_P1", kind |-> "u16", idx |-> <<6, 7>>],
    [name |-> "dig_P2", kind |-> "h",   idx |-> <<8, 9>>],
    [name |-> "dig_P3", kind |-> "h",   idx |-> <<10, 11>>],
    [name |-> "dig_P4", kind |-> "h",   idx |-> <<12, 13>>],
    [name |-> "dig_P5", kind |-> "h",   idx |-> <<14, 15>>],
    [name |-> "dig_P6", kind |-> "h",   idx |-> <<16, 17>>],
    [name |-> "dig_P7", kind |-> "h",   idx |-> <<18, 19>>],
    [name |-> "dig_P8", kind |-> "h",   idx |-> <<20, 21>>],
    [name |-> "dig_P9", kind |-> "h",   idx |-> <<22, 23>> ] >>

HFields == <<
    [name |-> "dig_H1", kind |-> "u8",  idx |-> <<24>>],
    [name |-> "dig_H2", kind |-> "h",   idx |-> <<25, 26>>],
    [name |-> "dig_H3", kind |-> "u8",  idx |-> <<27>>],
    [name |-> "dig_H4", kind |-> "h4",  idx |-> <<28, 29>>],
    [name |-> "dig_H5", kind |-> "h5",  idx |-> <<30, 29>>],
    [name |-> "dig_H6", kind |-> "b",   idx |-> <<31>> ] >>

\* the fields read_bme280 parses: test_temperature never parses humidity
CalFields(script, is_bme280) ==
    IF script = TempSensors /\ is_bme280 THEN TPFields \o HFields ELSE TPFields

\* cal[i] | (cal[i + 1] << 8)
DecodeU16(b0, b1) == BitOr(b0, Shl(b1, 8))

\* (cal[28] << 4) | (cal[29] & 0x0F)
DecodeH4(b0, b1) == BitOr(Shl(b0, 4), BitAnd(b1, 15))

\* a faulty variant of DecodeH5: the low nibble of cal[29] instead of the high
DecodeH5_LowNibble(b0, b1) == BitOr(Shl(b0, 4), BitAnd(b1, 15))

\* (cal[30] << 4) | (cal[29] >> 4)
DecodeH5(b0, b1) == BitOr(Shl(b0, 4), Shr(b1, 4))

\* the right-hand side of one coefficient assignment; b is the bytes read
DecodeField(kind, b) ==
    CASE kind = "u16" -> DecodeU16(b[1], b[2])
      [] kind = "h"   -> UnpackH(b[1], b[2])
      [] kind = "u8"  -> b[1]
      [] kind = "h4"  -> DecodeH4(b[1], b[2])
      [] kind = "h5"  -> DecodeH5(b[1], b[2])
      [] kind = "b"   -> UnpackB(b[1])

\* the positions of f.idx the parse evaluates: all of them, or up to and
\* including the first one that is not an index of cal
RECURSIVE Evaluated(_, _, _)
Evaluated(idx, n, j) ==
    IF j > Len(idx) THEN {}
    ELSE IF idx[j] >= n THEN {idx[j]}
    ELSE {idx[j]} \cup Evaluated(idx, n, j + 1)

\* whether the assignment of field f indexes cal out of range (IndexError)
RaisesAt(f, cal) == \E j \in 1..Len(f.idx) : f.idx[j] >= Len(cal)

\* the number of the first assignment that raises, Len(fields) + 1 if none
FirstRaise(fields, cal) ==
    CHOOSE k \in 1..(Len(fields) + 1) :
        /\ k > Len(fields) \/ RaisesAt(fields[k], cal)
        /\ \A j \in 1..(k - 1) : ~RaisesAt(fields[j], cal)

\* the value assigned to the coefficient called name
Assigned(fields, cal, name) ==
    LET f == fields[CHOOSE k \in 1..Len(fields) : fields[k].name = name]
    IN  DecodeField(f.kind, [j \in 1..Len(f.idx) |-> At(cal, f.idx[j])])

\* Runs the coefficient assignments in order up to assignment number stop,
\* the first that raises.  dig collects the assigned locals, reads the
\* indices of cal that were evaluated, raised tells whether an index was out
\* of range (IndexError), which ends the parse.
ParseFrom(fields, cal, stop) ==
    [dig    |-> [name \in {fields[k].name : k \in 1..(stop - 1)}
                    |-> Assigned(fields, cal, name)],
     reads  |-> UNION {Evaluated(fields[k].idx, Len(cal), 1) :
                          k \in 1..(IF stop > Len(fields) THEN Len(fields) ELSE stop)},
     raised |-> stop <= Len(fields)]

ParseCal(script, is_bme280, cal) ==
    ParseFrom(CalFields(script, is_bme280), cal,
              FirstRaise(CalFields(script, is_bme280), cal))

\* a faulty variant of DecodeAdc: the third byte is not shifted right
DecodeAdc_NoShift(b0, b1, b2) == BitOr(BitOr(Shl(b0, 12), Shl(b1, 4)), b2)

\* the raw-sample decode that follows the 0xF7 burst
DecodeAdc(b0, b1, b2) == BitOr(BitOr(Shl(b0, 12), Shl(b1, 4)), Shr(b2, 4))
DecodeAdcH(b0, b1) == BitOr(Shl(b0, 8), b1)

DecodeData(script, is_bme280, data) ==
    ("adc_p" :> DecodeAdc(At(data, 0), At(data, 1), At(data, 2)))
 @@ ("adc_t" :> DecodeAdc(At(data, 3), At(data, 4), At(data, 5)))
 @@ (IF script = TempSensors
     THEN ("adc_h" :> IF is_bme280 THEN DecodeAdcH(At(data, 6), At(data, 7)) ELSE None)
     ELSE <<>>)

----------------------------------------------------------------------------
(* Compensation stages, one operator per assignment statement.  Each takes *)
(* the locals l and returns them with the assigned local added or          *)
(* replaced; operators and grouping follow Python's precedence.            *)

\* x ** 2 on a float
FSquare(x) == FMul(x, x)

\* the statement Op executed on the locals v: v is evaluated first, as the
\* statements before Op have completed when Op starts
Then(v, Op(_)) == CHOOSE r \in {Op(x) : x \in {v}} : TRUE

TempVar1(l) ==
    ("var1" :> FMul(FSub(FDiv(F(l.adc_t), F(16384)), FDiv(F(l.dig_T1), F(1024))),
                    F(l.dig_T2))) @@ l
TempVar2(l) ==
    ("var2" :> FMul(FSquare(FSub(FDiv(F(l.adc_t), F(131072)),
                                 FDiv(F(l.dig_T1), F(8192)))),
                    F(l.dig_T3))) @@ l
TempTFine(l) == ("t_fine" :> FTrunc(FAdd(l.var1, l.var2))) @@ l
TempC(l) == ("temp_c" :> FDiv(FAdd(l.var1, l.var2), F(5120))) @@ l

TemperatureStage(l) == Then(Then(Then(Then(l, TempVar1), TempVar2), TempTFine), TempC)

\* a faulty variant of PressVar1a: the pressure stage also reassigns t_fine
PressVar1a_ClobbersTFine(l) ==
    ("var1" :> FSub(FDiv(F(l.t_fine), F(2)), F(64000)))
 @@ ("t_fine" :> l.t_fine + l.adc_p) @@ l

PressVar1a(l) == ("var1" :> FSub(FDiv(F(l.t_fine), F(2)), F(64000))) @@ l
PressVar2a(l) ==
    ("var2" :> FDiv(FMul(FMul(l.var1, l.var1), F(l.dig_P6)), F(32768))) @@ l
PressVar2b(l) ==
    ("var2" :> FAdd(l.var2, FMul(FMul(l.var1, F(l.dig_P5)), F(2)))) @@ l
PressVar2c(l) ==
    ("var2" :> FAdd(FDiv(l.var2, F(4)), FMul(F(l.dig_P4), F(65536)))) @@ l
PressVar1b(l) ==
    ("var1" :> FDiv(FAdd(FDiv(FMul(FMul(F(l.dig_P3), l.var1), l.var1), F(524288)),
                         FMul(F(l.dig_P2), l.var1)),
                    F(524288))) @@ l
PressVar1c(l) ==
    ("var1" :> FMul(FAdd(F(1), FDiv(l.var1, F(32768))), F(l.dig_P1))) @@ l

\* the statements before the test of var1
PressureHead(l) ==
    Then(Then(Then(Then(Then(Then(l, PressVar1a), PressVar2a), PressVar2b),
                   PressVar2c), PressVar1b), PressVar1c)

\* a faulty variant of Var1IsZero: the guard against var1 == 0 is missing
Var1IsZero_Never(var1) == FALSE

\* the test "var1 == 0" that guards the division
Var1IsZero(var1) == FIsZero(var1)

\* pressure_hpa = 0: the int 0, which compares equal to 0.0
PressZero(l) == ("pressure_hpa" :> FZero) @@ l

PressP0(l) == ("p" :> FSub(F(1048576), F(l.adc_p))) @@ l
PressP1(l) ==
    ("p" :> FDiv(FMul(FSub(l.p, FDiv(l.var2, F(4096))), F(6250)), l.var1)) @@ l
PressVar1d(l) ==
    ("var1" :> FDiv(FMul(FMul(F(l.dig_P9), l.p), l.p), FPow2(31))) @@ l
PressVar2d(l) == ("var2" :> FDiv(FMul(l.p, F(l.dig_P8)), F(32768))) @@ l
PressHpa(l) ==
    ("pressure_hpa" :> FDiv(FAdd(l.p, FDiv(FAdd(FAdd(l.var1, l.var2), F(l.dig_P7)),
                                           F(16))),
                            F(100))) @@ l

\* the else branch; dividing by a zero var1 raises ZeroDivisionError after
\* p = 1048576.0 - adc_p
PressureTail(l) ==
    IF FIsZero(l.var1)
    THEN [raised |-> TRUE, loc |-> PressP0(l)]
    ELSE [raised |-> FALSE,
          loc |-> Then(Then(Then(Then(Then(l, PressP0), PressP1), PressVar1d),
                            PressVar2d), PressHpa)]

PressureBranch(l) ==
    IF Var1IsZero(l.var1) THEN [raised |-> FALSE, loc |-> PressZero(l)]
    ELSE PressureTail(l)

\* [raised, loc]: raised is TRUE when a division by zero ended the stage
PressureStage(l) == Then(PressureHead(l), PressureBranch)

HumH0(l) == ("h" :> FSub(F(l.t_fine), F(76800))) @@ l
HumH1(l) ==
    ("h" :> FMul(FSub(F(l.adc_h),
                      FAdd(FMul(F(l.dig_H4), F(64)),
                           FMul(FDiv(F(l.dig_H5), F(16384)), l.h))),
                 FMul(FDiv(F(l.dig_H2), F(65536)),
                      FAdd(F(1),
                           FMul(FMul(FDiv(F(l.dig_H6), F(67108864)), l.h),
                                FAdd(F(1),
                                     FMul(FDiv(F(l.dig_H3), F(67108864)), l.h)))))))
    @@ l
HumH2(l) ==
    ("h" :> FMul(l.h, FSub(F(1), FDiv(FMul(F(l.dig_H1), l.h), F(524288))))) @@ l

\* Python's min(a, b) and max(a, b) on floats: b when it compares beyond a
FMin(a, b) == IF FLt(b, a) THEN b ELSE a
FMax(a, b) == IF FLt(a, b) THEN b ELSE a

HumClamp(l) == ("humidity" :> FMax(F(0), FMin(F(100), l.h))) @@ l

\* test_temp_sensors only
HumidityStage(l) == Then(Then(Then(Then(l, HumH0), HumH1), HumH2), HumClamp)

----------------------------------------------------------------------------
(* What the device may answer.  The first blocks are chosen by hand (the   *)
(* data-sheet example, all zeros, the extreme coefficients, dig_P1 = 0,    *)
(* the data-sheet temperature bytes with other pressure bytes); numbers    *)
(* above those give further, mixed bytes.                                  *)

NumCalBlocks == 7
NumHumBlocks == 3
NumDataBlocks == 5

Mixed(i, n) == [j \in 1..n |-> (53 * i + 101 * j + 7 * i * j) % 256]

CalTPBlock(i) ==
    CASE i = 1 -> <<112, 107, 67, 103, 24, 252,
                    125, 142, 67, 214, 208, 11, 39, 11, 140, 0,
                    249, 255, 140, 60, 248, 198, 112, 23>>
      [] i = 2 -> [j \in 1..LEN_CAL_TP |-> 0]
      [] i = 3 -> <<255, 255, 255, 127, 0, 128,
                    0, 0, 255, 127, 0, 128, 255, 127, 0, 128,
                    255, 127, 0, 128, 255, 127, 0, 128>>
      [] i = 4 -> [j \in 1..LEN_CAL_TP |-> 255]
      [] i = 5 -> <<0, 0, 255, 127, 0, 0,
                    1, 0, 0, 128, 0, 0, 0, 0, 0, 0,
                    0, 0, 0, 0, 0, 0, 0, 0>>
      [] i = 6 -> <<112, 107, 67, 103, 24, 252,
                    0, 0, 1, 0, 255, 255, 0, 1, 2, 3,
                    4, 5, 6, 7, 8, 9, 10, 11>>
      [] OTHER -> Mixed(i, LEN_CAL_TP)

CalHBlock(i) ==
    CASE i = 1 -> <<75, 109, 1, 0, 19, 40, 3>>
      [] i = 2 -> [j \in 1..LEN_CAL_H |-> 255]
      [] OTHER -> Mixed(i, LEN_CAL_H)

DataBlock(i) ==
    CASE i = 1 -> <<101, 90, 192, 126, 237, 0, 128, 0>>
      [] i = 2 -> [j \in 1..LEN_DATA |-> 0]
      [] i = 3 -> <<128, 0, 0, 143, 161, 32, 255, 255>>
      [] i = 4 -> <<17, 34, 51, 126, 237, 15, 1, 2>>
      [] OTHER -> Mixed(i, LEN_DATA)

CalTPBlocks == {CalTPBlock(i) : i \in 1..NumCalBlocks}
CalHBlocks == {CalHBlock(i) : i \in 1..NumHumBlocks}
DataBlocks == {DataBlock(i) : i \in 1..NumDataBlocks}

----------------------------------------------------------------------------
(* One call of read_bme280(bus, addr).                                     *)

VARIABLES
    script,   \* the script whose read_bme280 runs
    pc,       \* the statement the call has reached
    bus,      \* the bus transactions issued so far, in order
    loc,      \* the local variables assigned so far
    calReads, \* the indices of cal the calibration parse evaluated
    result    \* the returned dictionary, None until the call returns

vars == <<script, pc, bus, loc, calReads, result>>

Init ==
    /\ script \in Scripts
    /\ pc = "read_chip_id"
    /\ bus = <<>>
    /\ loc = <<>>
    /\ calReads = {}
    /\ result = None

\* the except clause: str(e) for the exception e
OSErrorText == <<"bus error">>
IndexErrorText == <<"list index out of range">>
ZeroDivisionErrorText == <<"float division by zero">>

UnknownChipText(s, chip_id) ==
    (IF s = TempSensors THEN <<"Unknown chip ID: 0x">> ELSE <<"Unknown chip: 0x">>)
        \o Hex02X(chip_id)

\* a faulty variant of FailureResult: the failure is reported as a success
FailureResult_ReportsSuccess(s, text) == [success |-> TRUE, error |-> text]

FailureResult(s, text) ==
    IF s = TempSensors
    THEN [temperature |-> None, humidity |-> None, pressure |-> None,
          success |-> FALSE, error |-> text]
    ELSE [success |-> FALSE, error |-> text]

SuccessResult(s, l, humidity) ==
    LET chip_name == IF l.is_bme280 THEN "BME280" ELSE "BMP280"
    IN  IF s = TempSensors
        THEN [temperature |-> l.temp_c, humidity |-> humidity,
              pressure |-> l.pressure_hpa, chip |-> chip_name, success |-> TRUE]
        ELSE [temperature |-> l.temp_c, pressure |-> l.pressure_hpa,
              chip |-> chip_name, success |-> TRUE]

Txn(op, reg, arg, ok) == [op |-> op, reg |-> reg, arg |-> arg, ok |-> ok]

\* a faulty variant of BusFails: the failed transaction is issued again
BusFails_Retries(op, reg, arg) ==
    /\ Len(bus) < 9
    /\ bus' = Append(bus, Txn(op, reg, arg, FALSE))
    /\ UNCHANGED <<script, pc, loc, calReads, result>>

\* a bus transaction that raises: the except clause returns the failure
BusFails(op, reg, arg) ==
    /\ bus' = Append(bus, Txn(op, reg, arg, FALSE))
    /\ result' = FailureResult(script, OSErrorText)
    /\ pc' = "done"
    /\ UNCHANGED <<script, loc, calReads>>

\* bus.write_byte_data(addr, reg, val): it succeeds or raises
WriteByteData(reg, val, next) ==
    \/ /\ bus' = Append(bus, Txn("write_byte_data", reg, val, TRUE))
       /\ pc' = next
       /\ UNCHANGED <<script, loc, calReads, result>>
    \/ BusFails("write_byte_data", reg, val)

\* chip_id = bus.read_byte_data(addr, 0xD0) and the variant test
ReadChipId ==
    /\ pc = "read_chip_id"
    /\ \/ \E chip_id \in Byte :
            /\ bus' = Append(bus, Txn("read_byte_data", REG_CHIP_ID, 1, TRUE))
            /\ loc' = ("chip_id" :> chip_id)
                   @@ ("is_bme280" :> IsBme280(chip_id))
                   @@ ("is_bmp280" :> IsBmp280(chip_id)) @@ loc
            /\ IF ~(IsBme280(chip_id) \/ IsBmp280(chip_id))
               THEN /\ result' = FailureResult(script, UnknownChipText(script, chip_id))
                    /\ pc' = "done"
               ELSE /\ pc' = "reset"
                    /\ UNCHANGED result
            /\ UNCHANGED <<script, calReads>>
       \/ BusFails("read_byte_data", REG_CHIP_ID, 1)

\* bus.write_byte_data(addr, 0xE0, 0xB6)
Reset ==
    /\ pc = "reset"
    /\ WriteByteData(REG_RESET, 182, "read_cal")

\* The coefficient assignments, run on the complete cal.  An IndexError
\* leaves the locals assigned before it and returns the failure.
Parse(cal) ==
    LET st == ParseCal(script, loc.is_bme280, cal)
    IN  /\ loc' = st.dig @@ ("cal" :> cal) @@ loc
        /\ calReads' = st.reads
        /\ IF st.raised
           THEN /\ result' = FailureResult(script, IndexErrorText)
                /\ pc' = "done"
           ELSE /\ pc' = IF loc.is_bme280 THEN "ctrl_hum" ELSE "ctrl_meas"
                /\ UNCHANGED result

\* a faulty variant of ReadsCalH: the humidity registers are used for any chip
ReadsCalH_Always(is_bme280) == TRUE

\* whether the second calibration burst is read
ReadsCalH(is_bme280) == is_bme280

\* cal = bus.read_i2c_block_data(addr, 0x88, 24); a BMP280 is parsed at once
ReadCalTP ==
    /\ pc = "read_cal"
    /\ \/ \E block \in CalTPBlocks :
            /\ bus' = Append(bus, Txn("read_i2c_block_data", REG_CAL_TP, LEN_CAL_TP, TRUE))
            /\ IF ReadsCalH(loc.is_bme280)
               THEN /\ loc' = ("cal" :> block) @@ loc
                    /\ pc' = "read_cal_h"
                    /\ UNCHANGED <<calReads, result>>
               ELSE Parse(block)
            /\ UNCHANGED script
       \/ BusFails("read_i2c_block_data", REG_CAL_TP, LEN_CAL_TP)

\* cal += bus.read_i2c_block_data(addr, 0xE1, 7), then the parse
ReadCalH ==
    /\ pc = "read_cal_h"
    /\ \/ \E block \in CalHBlocks :
            /\ bus' = Append(bus, Txn("read_i2c_block_data", REG_CAL_H, LEN_CAL_H, TRUE))
            /\ Parse(loc.cal \o block)
            /\ UNCHANGED script
       \/ BusFails("read_i2c_block_data", REG_CAL_H, LEN_CAL_H)

\* bus.write_byte_data(addr, 0xF2, 0x01), BME280 only
WriteCtrlHum ==
    /\ pc = "ctrl_hum"
    /\ WriteByteData(REG_CTRL_HUM, 1, "ctrl_meas")

\* bus.write_byte_data(addr, 0xF4, 0x27)
WriteCtrlMeas ==
    /\ pc = "ctrl_meas"
    /\ WriteByteData(REG_CTRL_MEAS, 39, "config")

\* bus.write_byte_data(addr, 0xF5, 0xA0)
WriteConfig ==
    /\ pc = "config"
    /\ WriteByteData(REG_CONFIG, 160, "read_data")

\* data = bus.read_i2c_block_data(addr, 0xF7, 8) and the raw decode
ReadData ==
    /\ pc = "read_data"
    /\ \/ \E data \in DataBlocks :
            /\ bus' = Append(bus, Txn("read_i2c_block_data", REG_DATA, LEN_DATA, TRUE))
            /\ loc' = DecodeData(script, loc.is_bme280, data) @@ ("data" :> data) @@ loc
            /\ pc' = "temperature"
            /\ UNCHANGED <<script, calReads, result>>
       \/ BusFails("read_i2c_block_data", REG_DATA, LEN_DATA)

\* the temperature compensation
TemperatureStep ==
    /\ pc = "temperature"
    /\ loc' = TemperatureStage(loc)
    /\ pc' = "pressure"
    /\ UNCHANGED <<script, bus, calReads, result>>

\* the pressure compensation
PressureStep ==
    /\ pc = "pressure"
    /\ LET st == PressureStage(loc)
       IN  /\ loc' = st.loc
           /\ IF st.raised
              THEN /\ result' = FailureResult(script, ZeroDivisionErrorText)
                   /\ pc' = "done"
              ELSE /\ pc' = "humidity"
                   /\ UNCHANGED result
    /\ UNCHANGED <<script, bus, calReads>>

\* the humidity compensation (test_temp_sensors, BME280 only) and the return
HumidityStep ==
    /\ pc = "humidity"
    /\ IF script = TempSensors /\ loc.is_bme280 /\ loc.adc_h # None
       THEN /\ loc' = HumidityStage(loc)
            /\ result' = SuccessResult(script, loc, loc'.humidity)
       ELSE /\ loc' = IF script = TempSensors THEN ("humidity" :> None) @@ loc ELSE loc
            /\ result' = SuccessResult(script, loc, None)
    /\ pc' = "done"
    /\ UNCHANGED <<script, bus, calReads>>

Next ==
    \/ ReadChipId
    \/ Reset
    \/ ReadCalTP
    \/ ReadCalH
    \/ WriteCtrlHum
    \/ WriteCtrlMeas
    \/ WriteConfig
    \/ ReadData
    \/ TemperatureStep
    \/ PressureStep
    \/ HumidityStep

Spec == Init /\ [][Next]_vars

----------------------------------------------------------------------------
(* The byte decoding on its own: the calibration parse and the raw-sample  *)
(* decode of a BME280, applied to blocks that range over every byte pair.  *)
(* For (lo, hi) each 16-bit field of the calibration block holds its own   *)
(* rotation of the pair, so each field meets every pair once and no two    *)
(* fields hold the same pair.                                              *)

PatternCal(lo, hi) ==
    [j \in 1..(LEN_CAL_TP + LEN_CAL_H) |->
        IF j <= LEN_CAL_TP
        THEN IF j % 2 = 1 THEN (lo + 21 * ((j - 1) \div 2)) % 256
                          ELSE (hi + 37 * ((j - 1) \div 2)) % 256
        ELSE CASE j = 25 -> (lo + 7) % 256
               [] j = 26 -> (hi + 13) % 256
               [] j = 27 -> (lo + 17) % 256
               [] j = 28 -> (hi + 29) % 256
               [] j = 29 -> lo
               [] j = 30 -> hi
               [] j = 31 -> (lo + 97) % 256]

PatternData(lo, hi) ==
    <<lo, hi, (lo + 3 * hi) % 256,
      hi, (lo + 85) % 256, (5 * lo + hi) % 256,
      (hi + 11) % 256, (lo + 3) % 256>>

\* test_temperature decodes with the same statements, without the humidity
\* fields; it is run on the pairs whose high byte is at an end or at the
\* sign boundary
EdgeBytes == {0, 1, 127, 128, 254, 255}

InitDecode ==
    /\ script \in Scripts
    /\ pc = "decode"
    /\ bus = <<>>
    /\ \E lo \in Byte, hi \in (IF script = TempSensors THEN Byte ELSE EdgeBytes) :
         loc = [is_bme280 |-> TRUE, cal |-> PatternCal(lo, hi),
                data |-> PatternData(lo, hi)]
    /\ calReads = {}
    /\ result = None

\* the coefficient assignments and the raw decode, as read_bme280 runs them
DecodeStep ==
    /\ pc = "decode"
    /\ LET st == ParseCal(script, loc.is_bme280, loc.cal)
       IN  /\ loc' = DecodeData(script, loc.is_bme280, loc.data) @@ st.dig @@ loc
           /\ calReads' = st.reads
    /\ pc' = "decoded"
    /\ UNCHANGED <<script, bus, result>>

NextDecode == DecodeStep

SpecDecode == InitDecode /\ [][NextDecode]_vars

----------------------------------------------------------------------------
(* Properties of read_bme280.                                              *)

\* every bus transaction issued so far succeeded
AllOk == \A i \in 1..Len(bus) : bus[i].ok

Returned == pc = "done"

\* the registers accessed so far, in order
Regs == [i \in 1..Len(bus) |-> bus[i].reg]

\* the value of an upper-case hexadecimal digit
HexValue(c) == CHOOSE v \in 0..15 : HexDigits[v + 1] = c

\* a returned value that is a float, not None
Populated(v) == v # None /\ DOMAIN v = {"s", "m", "e"}

\* C1: the chip-ID byte b read from 0xD0 selects BME280 iff b = 0x60 and
\* BMP280 iff b = 0x58; for every other b the call returns success = False
\* with an error text that ends in the two hexadecimal digits of b, and the
\* chip-ID read is the only bus transaction of the call.
C1_ChipIdDispatch ==
    "chip_id" \in DOMAIN loc =>
        /\ loc.is_bme280 = (loc.chip_id = 96)
        /\ loc.is_bmp280 = (loc.chip_id = 88)
        /\ (Returned /\ result.success) =>
               result.chip = (IF loc.chip_id = 96 THEN "BME280" ELSE "BMP280")
        /\ loc.chip_id \notin {96, 88} =>
               /\ Returned
               /\ result.success = FALSE
               /\ Len(result.error) = 3
               /\ 16 * HexValue(result.error[2]) + HexValue(result.error[3])
                      = loc.chip_id
               /\ Regs = <<208>>

C1_Witness ==
    /\ Returned
    /\ "chip_id" \in DOMAIN loc
    /\ loc.chip_id = 97
    /\ result.success = FALSE

\* C2: the calibration block of a BME280 is the 24 bytes read at 0x88
\* followed by the 7 bytes read at 0xE1, and the calibration parse evaluates
\* no index outside the block it was given.
C2_CalParseInBounds ==
    (calReads # {} /\ "cal" \in DOMAIN loc) =>
        /\ loc.is_bme280 => Len(loc.cal) = 31
        /\ loc.is_bmp280 => Len(loc.cal) = 24
        /\ \A i \in calReads : 0 <= i /\ i < Len(loc.cal)

\* C3: for chip ID 0x60, when every bus transaction succeeds, the call
\* returns success = True with chip 'BME280', and temperature, pressure and
\* humidity populated.
C3_Bme280ReadSucceeds ==
    (Returned /\ AllOk /\ "chip_id" \in DOMAIN loc /\ loc.chip_id = 96) =>
        /\ result.success
        /\ result.chip = "BME280"
        /\ Populated(result.temperature)
        /\ Populated(result.pressure)
        /\ "humidity" \in DOMAIN result
        /\ Populated(result.humidity)

\* C4: for chip ID 0x58, when every bus transaction succeeds, the call
\* returns success = True with chip 'BMP280', temperature and pressure
\* populated and humidity None or absent, and it neither read the burst at
\* 0xE1 nor wrote register 0xF2.
C4_Bmp280Read ==
    (Returned /\ AllOk /\ "chip_id" \in DOMAIN loc /\ loc.chip_id = 88) =>
        /\ result.success
        /\ result.chip = "BMP280"
        /\ Populated(result.temperature)
        /\ Populated(result.pressure)
        /\ "humidity" \in DOMAIN result => result.humidity = None
        /\ \A i \in 1..Len(bus) : bus[i].reg \notin {225, 242}

C4_Witness ==
    /\ Returned
    /\ AllOk
    /\ "chip_id" \in DOMAIN loc
    /\ loc.chip_id = 88
    /\ result.success
    /\ Regs = <<208, 224, 136, 244, 245, 247>>

\* 0 <= x <= 100 for a float x
InPercentRange(x) == ~FLt(x, F(0)) /\ ~FLt(F(100), x)

C6_ZeroDenominator ==
    (pc \in {"humidity", "done"} /\ "t_fine" \in DOMAIN loc /\ loc.dig_P1 = 0) =>
        /\ "pressure_hpa" \in DOMAIN loc
        /\ loc.pressure_hpa = FZero
        /\ "p" \notin DOMAIN loc
        /\ Returned => (result.success /\ result.pressure = FZero)

C6_Witness ==
    /\ Returned
    /\ "t_fine" \in DOMAIN loc
    /\ loc.dig_P1 = 0
    /\ loc.dig_P2 # 0
    /\ loc.adc_p # 0
    /\ result.success
    /\ result.pressure = FZero

\* the locals the temperature compensation reads, decoded from the raw
\* temperature bytes data[3..5] and the calibration bytes cal[0..5] alone
TempInputs(cal, data) ==
    [adc_t  |-> DecodeAdc(At(data, 3), At(data, 4), At(data, 5)),
     dig_T1 |-> DecodeU16(At(cal, 0), At(cal, 1)),
     dig_T2 |-> UnpackH(At(cal, 2), At(cal, 3)),
     dig_T3 |-> UnpackH(At(cal, 4), At(cal, 5))]

\* C7: t_fine is assigned once per call and never changes afterwards, so
\* the pressure and humidity stages read the value the temperature stage
\* left; the returned temperature and t_fine are those determined by the
\* raw temperature bytes and dig_T1..dig_T3 alone, whatever the other
\* coefficients and raw bytes are.
C7_TFineAssignedOnce ==
    [][/\ "t_fine" \in DOMAIN loc =>
              ("t_fine" \in DOMAIN loc' /\ loc'.t_fine = loc.t_fine)
       /\ (pc' = "done" /\ result'.success) =>
              /\ loc'.t_fine = TemperatureStage(TempInputs(loc'.cal, loc'.data)).t_fine
              /\ result'.temperature
                     = TemperatureStage(TempInputs(loc'.cal, loc'.data)).temp_c]_vars

C7_Witness ==
    /\ Returned
    /\ result.success
    /\ loc.t_fine = 128422
    /\ loc.dig_P1 = 0
    /\ loc.adc_p = 70179
    /\ At(loc.data, 5) = 15

\* the fields of the calibration block with their byte offsets
UnsignedFields == {<<"dig_T1", 0>>, <<"dig_P1", 6>>}
SignedFields ==
    {<<"dig_T2", 2>>, <<"dig_T3", 4>>, <<"dig_P2", 8>>, <<"dig_P3", 10>>,
     <<"dig_P4", 12>>, <<"dig_P5", 14>>, <<"dig_P6", 16>>, <<"dig_P7", 18>>,
     <<"dig_P8", 20>>, <<"dig_P9", 22>>}

\* C8: dig_T1 and dig_P1 decode to lo + 256*hi in [0, 65535]; dig_T2,
\* dig_T3 and dig_P2..dig_P9 decode to lo + 256*hi when hi < 128 and to
\* lo + 256*hi - 65536 otherwise, in [-32768, 32767]; lo and hi are the
\* bytes at offsets 0,2,4 (T1..T3) and 6,8,...,22 (P1..P9) and the next.
C8_CoefficientDecode ==
    pc = "decoded" =>
        /\ \A f \in UnsignedFields :
              LET lo == At(loc.cal, f[2])
                  hi == At(loc.cal, f[2] + 1)
              IN  /\ loc[f[1]] = lo + 256 * hi
                  /\ loc[f[1]] \in 0..65535
        /\ \A f \in SignedFields :
              LET lo == At(loc.cal, f[2])
                  hi == At(loc.cal, f[2] + 1)
              IN  /\ loc[f[1]] = IF hi < 128 THEN lo + 256 * hi
                                             ELSE lo + 256 * hi - 65536
                  /\ loc[f[1]] \in -32768..32767

C8_Witness ==
    /\ pc = "decoded"
    /\ loc.dig_T1 = 65535
    /\ loc.dig_T2 = 9236
    /\ loc.dig_P9 = -26906

\* C9: with b0, b1, b2 the calibration bytes 28, 29, 30,
\* dig_H4 = 16*b0 + (b1 mod 16) and dig_H5 = 16*b2 + (b1 div 16); both lie
\* in [0, 4095], and b0, b1 and b2 are recovered from (dig_H4, dig_H5).
C9_NibblePacking ==
    (pc = "decoded" /\ script = TempSensors) =>
        LET b0 == At(loc.cal, 28)
            b1 == At(loc.cal, 29)
            b2 == At(loc.cal, 30)
        IN  /\ loc.dig_H4 = 16 * b0 + (b1 % 16)
            /\ loc.dig_H5 = 16 * b2 + (b1 \div 16)
            /\ loc.dig_H4 \in 0..4095
            /\ loc.dig_H5 \in 0..4095
            /\ b0 = loc.dig_H4 \div 16
            /\ b1 = (loc.dig_H4 % 16) + 16 * (loc.dig_H5 % 16)
            /\ b2 = loc.dig_H5 \div 16

C9_Witness ==
    /\ pc = "decoded"
    /\ script = TempSensors
    /\ At(loc.cal, 29) = 165
    /\ loc.dig_H4 = 4085
    /\ loc.dig_H5 % 16 = 10

C11_NoRetry ==
    /\ \A i, j \in 1..Len(bus) : bus[i].reg = bus[j].reg => i = j
    /\ \A i \in 1..Len(bus) :
          ~bus[i].ok => (i = Len(bus) /\ Returned /\ result.success = FALSE)
    /\ \A i \in 1..Len(bus) : bus[i].reg \in {208, 224, 136, 225, 242, 244, 245, 247}

C11_Witness ==
    /\ Returned
    /\ Len(bus) = 7
    /\ ~bus[7].ok
    /\ \A i \in 1..6 : bus[i].ok
    /\ result.success = FALSE

----------------------------------------------------------------------------
(* The scripts that drive the PCA9548A multiplexer: run_test of            *)
(* test_multiplexer, test_temperature and test_oled, main of               *)
(* test_temp_sensors with its optional continuous monitoring, and main of  *)
(* test_i2c_setup.  Here bus holds the transactions of the whole script,   *)
(* each with the address it is sent to, and loc the locals of the script.  *)

Multiplexer == "test_multiplexer"
Oled == "test_oled"
I2cSetup == "test_i2c_setup"
MuxScripts == {Multiplexer, Temperature, Oled, TempSensors, I2cSetup}

MUX_ADDR == 112

\* TEMP_SENSOR_ADDRS, TEMP_HUM_ADDRS and OLED_ADDRS of test_i2c_setup
TEMP_SENSOR_ADDRS == {72, 73, 74, 75}
TEMP_HUM_ADDRS == {64, 68, 118, 119}
OLED_ADDRS == {60, 61}

\* The devices behind the multiplexer, per channel: nothing; the sensors
\* and displays the scripts are configured for; further ones hold devices
\* of every kind on the first and the last channel.
NumPopulations == 3
Population(p) ==
    CASE p = 1 -> [c \in 0..7 |-> {}]
      [] p = 2 -> [c \in 0..7 |-> CASE c = 0 -> {68} [] c = 1 -> {118}
                                    [] c = 2 -> {61} [] c = 3 -> {60}
                                    [] OTHER -> {}]
      [] OTHER -> [c \in 0..7 |-> CASE c = 0 -> {72 + (p % 4)}
                                    [] c = 7 -> {60, 80 + p}
                                    [] OTHER -> {}]

\* the (channel, address) pairs of channel_devices whose address is in
\* addrs, in the order the scan found them
Listed(items, addrs, type) ==
    LET S == {<<c, a>> : c \in DOMAIN items, a \in addrs}
        T == {p \in S : p[2] \in items[p[1]]}
        Rank(p) == Cardinality({q \in T : 256 * q[1] + q[2] <= 256 * p[1] + p[2]})
    IN  [k \in 1..Cardinality(T) |->
            LET p == CHOOSE q \in T : Rank(q) = k
            IN  [name |-> p, channel |-> p[1], address |-> p[2], type |-> type]]

\* identify_devices and run_functional_tests of test_i2c_setup: the
\* temperature sensors, the displays, then the temperature/humidity sensors
FunctionalTests(items) ==
    Listed(items, TEMP_SENSOR_ADDRS, "temp")
    \o Listed(items, OLED_ADDRS, "oled")
    \o Listed(items, TEMP_HUM_ADDRS, "temp")

\* SENSORS / OLEDS: name, channel, address and type of each device; for
\* test_i2c_setup the devices run_functional_tests goes through
Devices(s) ==
    CASE s = Temperature ->
             <<[name |-> "SHT31", channel |-> 0, address |-> 68, type |-> "sht3x"],
               [name |-> "BMP280", channel |-> 1, address |-> 118, type |-> "bme280"]>>
      [] s = TempSensors ->
             <<[name |-> "SHT31/SHT4x", channel |-> 0, address |-> 68, type |-> "sht3x"],
               [name |-> "BME280/BMP280", channel |-> 1, address |-> 118, type |-> "bme280"]>>
      [] s = Oled ->
             <<[name |-> "OLED_1", channel |-> 2, address |-> 61, type |-> "oled"],
               [name |-> "OLED_2", channel |-> 3, address |-> 60, type |-> "oled"]>>
      [] s = I2cSetup -> FunctionalTests(loc.items)
      [] OTHER -> <<>>

\* one transaction on the I2C bus: val is the byte written to the
\* multiplexer, or the register of a device transaction
Bx(addr, op, val, ok) == [addr |-> addr, op |-> op, val |-> val, ok |-> ok]

\* The registers a device read accesses when no transaction raises, and
\* whether it then reports success: read_sht3x; read_bme280 for an unknown
\* chip, a BMP280 and a BME280; bus.read_byte(addr) of test_oled_basic and
\* of test_oled_display; the two-byte read of test_temperature_sensor.
Completions(s, type) ==
    CASE type = "sht3x" -> {[regs |-> <<36, 0>>, success |-> TRUE]}
      [] type = "bme280" ->
             {[regs |-> <<REG_CHIP_ID>>, success |-> FALSE],
              [regs |-> <<REG_CHIP_ID, REG_RESET, REG_CAL_TP, REG_CTRL_MEAS,
                          REG_CONFIG, REG_DATA>>, success |-> TRUE],
              IF s = TempSensors
              THEN [regs |-> <<REG_CHIP_ID, REG_RESET, REG_CAL_TP, REG_CAL_H>>,
                    success |-> FALSE]
              ELSE [regs |-> <<REG_CHIP_ID, REG_RESET, REG_CAL_TP, REG_CAL_H,
                               REG_CTRL_HUM, REG_CTRL_MEAS, REG_CONFIG, REG_DATA>>,
                    success |-> TRUE]}
      [] type \in {"oled", "temp"} -> {[regs |-> <<0>>, success |-> TRUE]}

\* the first k transactions of a device read; the k-th raises unless lastok
DeviceTxns(addr, regs, k, lastok) ==
    [j \in 1..k |-> Bx(addr, "device", regs[j], j < k \/ lastok)]

\* what one call of the read function can do on the bus: run to the end, or
\* stop at the first transaction that raises and report the failure
DeviceRuns(s, d) ==
    {[txns |-> DeviceTxns(d.address, c.regs, Len(c.regs), TRUE),
      success |-> c.success] : c \in Completions(s, d.type)}
    \cup UNION {{[txns |-> DeviceTxns(d.address, c.regs, k, FALSE),
                  success |-> FALSE] : k \in 1..Len(c.regs)}
                : c \in Completions(s, d.type)}

\* the rounds of continuous monitoring that are followed
MaxRounds == 1

InitMux ==
    /\ script \in MuxScripts
    /\ pc = "open"
    /\ bus = <<>>
    /\ \E visual \in BOOLEAN, luma \in BOOLEAN, p \in 1..NumPopulations :
          loc = [i |-> 1, passed |-> 0, failed |-> 0, items |-> <<>>,
                 open |-> FALSE, closed |-> FALSE, message |-> <<>>, round |-> 0,
                 visual |-> visual /\ script = Oled,
                 luma |-> luma /\ script = Oled,
                 population |-> Population(p)]
    /\ calReads = {}
    /\ result = None

\* what the script returns: the result dictionary of run_test, or the exit
\* code of main (test_temp_sensors, test_i2c_setup)
Returns(status, error) ==
    result' = IF script \in {TempSensors, I2cSetup}
              THEN [exit |-> IF status = "pass" THEN 0 ELSE 1]
              ELSE [status |-> status, message |-> loc'.message,
                    items |-> loc'.items, error |-> error]

\* the script returns a failure: from the outer except clause that an
\* exception reached, or from a return statement
Fails(txns, error) ==
    /\ bus' = bus \o txns
    /\ loc' = loc
    /\ Returns("fail", error)
    /\ pc' = "done"
    /\ UNCHANGED <<script, calReads>>

Escapes(txns) == Fails(txns, OSErrorText)

\* bus = smbus.SMBus(I2C_BUS)
OpenBus ==
    /\ pc = "open"
    /\ \/ /\ loc' = [loc EXCEPT !.open = TRUE]
          /\ pc' = CASE script \in {Multiplexer, TempSensors} -> "probe"
                     [] script = I2cSetup -> "scan_bus"
                     [] OTHER -> "select"
          /\ UNCHANGED <<script, bus, calReads, result>>
       \/ Escapes(<<>>)

\* bus.read_byte(addr) for every addr of addrs[1..n]; found ones answer
ScanReads(addrs, n, found) ==
    [j \in 1..n |-> Bx(addrs[j], "read_byte", None, addrs[j] \in found)]

\* a faulty variant of ScanRangeNoMux: the multiplexer's own address is
\* probed like a device's
ScanRangeNoMux_WithMux == [j \in 1..116 |-> j + 2]

\* range(0x03, 0x78), and the same without MUX_ADDR
ScanRange == [j \in 1..117 |-> j + 2]
ScanRangeNoMux == [j \in 1..116 |-> IF j + 2 < MUX_ADDR THEN j + 2 ELSE j + 3]

\* scan_i2c_bus(bus) of test_i2c_setup.main, which returns 1 when no
\* address of the main bus answers
ScanI2cBus ==
    /\ pc = "scan_bus"
    /\ \/ /\ bus' = bus \o ScanReads(ScanRange, 117, {MUX_ADDR})
          /\ pc' = "probe"
          /\ UNCHANGED <<script, loc, calReads, result>>
       \/ Fails(ScanReads(ScanRange, 117, {}), None)

\* state = bus.read_byte(MUX_ADDR): the presence probe of test_multiplexer
\* and of test_temp_sensors.main; test_multiplexer(bus, mux_addr) of
\* test_i2c_setup, which then disables all channels.  The script returns
\* at once when the probe fails.
ProbeMux ==
    /\ pc = "probe"
    /\ LET probe == Bx(MUX_ADDR, "read_byte", None, TRUE)
           disable == Bx(MUX_ADDR, "write_byte", 0, TRUE)
       IN  \/ /\ bus' = bus \o (IF script = I2cSetup THEN <<probe, disable>>
                                                   ELSE <<probe>>)
              /\ loc' = [loc EXCEPT !.message =
                                       IF script = Multiplexer
                                       THEN <<"Multiplexer OK at 0x">> \o Hex02X(MUX_ADDR)
                                       ELSE loc.message]
              /\ pc' = IF script = TempSensors THEN "select" ELSE "scan"
              /\ UNCHANGED <<script, calReads, result>>
           \/ Fails(<<[probe EXCEPT !.ok = FALSE]>>,
                    <<"Multiplexer not found: ">> \o OSErrorText)
           \/ /\ script = I2cSetup
              /\ Fails(<<probe, [disable EXCEPT !.ok = FALSE]>>, None)

\* a faulty variant of SelectChannel: channel 0 stays enabled with the
\* selected one
SelectChannel_KeepsChannel0(s, channel) ==
    [raised |-> FALSE,
     txns |-> <<Bx(MUX_ADDR, "write_byte", BitOr(Shl(1, channel), 1), TRUE)>>]

\* a faulty variant of SelectChannel: the channel after the given one is
\* selected
SelectChannel_NextChannel(s, channel) ==
    [raised |-> FALSE,
     txns |-> <<Bx(MUX_ADDR, "write_byte", Shl(1, (channel + 1) % 8), TRUE)>>]

\* a faulty variant of SelectChannel: channel 8 passes the range check
SelectChannel_Allows8(s, channel) ==
    IF s = I2cSetup /\ (channel < 0 \/ channel > 8)
    THEN [raised |-> TRUE, txns |-> <<>>]
    ELSE [raised |-> FALSE,
          txns |-> <<Bx(MUX_ADDR, "write_byte", Shl(1, channel), TRUE)>>]

\* PCA9548A.select_channel(channel): ValueError outside 0..7, else
\* bus.write_byte(address, 1 << channel); select_mux_channel(bus, channel)
\* of the other scripts has no check of the channel
SelectChannel(s, channel) ==
    IF s = I2cSetup /\ (channel < 0 \/ channel > 7)
    THEN [raised |-> TRUE, txns |-> <<>>]
    ELSE [raised |-> FALSE,
          txns |-> <<Bx(MUX_ADDR, "write_byte", Shl(1, channel), TRUE)>>]

\* the transactions txns with the last one raising
LastFails(txns) == [txns EXCEPT ![Len(txns)].ok = FALSE]

\* One iteration of the channel scan: "for ch in range(8)" of
\* test_multiplexer.run_test, "for channel in range(num_channels)" of
\* scan_mux_channels, which catches the exception of a failed select and,
\* after the last channel, disables all channels.
ScanChannel ==
    /\ pc = "scan"
    /\ LET ch == loc.i - 1
           sel == SelectChannel(script, ch)
           reads == ScanReads(ScanRangeNoMux, 116, loc.population[ch])
           disable == <<Bx(MUX_ADDR, "write_byte", 0, TRUE)>>
           scanned(f) == [loc EXCEPT !.items = (ch :> f) @@ loc.items,
                                     !.passed = IF script = Multiplexer
                                                THEN loc.passed + Cardinality(f)
                                                ELSE loc.passed,
                                     !.i = IF loc.i = 8 THEN 1 ELSE loc.i + 1]
           next(f) == IF loc.i < 8 THEN "scan"
                      ELSE IF script = Multiplexer THEN "disable"
                      ELSE IF Len(FunctionalTests(scanned(f).items)) > 0
                           THEN "select" ELSE "disable"
       IN  \/ /\ script = Multiplexer
              /\ bus' = bus \o sel.txns \o reads
              /\ loc' = scanned(loc.population[ch])
              /\ pc' = next(loc.population[ch])
              /\ UNCHANGED <<script, calReads, result>>
           \/ /\ script = Multiplexer
              /\ Escapes(LastFails(sel.txns))
           \/ /\ script = I2cSetup
              /\ \E selected \in BOOLEAN :
                    LET txns == IF selected THEN sel.txns \o reads
                                ELSE LastFails(sel.txns)
                        f == IF selected THEN loc.population[ch] ELSE {}
                    IN  \/ /\ bus' = bus \o txns \o (IF loc.i = 8 THEN disable ELSE <<>>)
                           /\ loc' = scanned(f)
                           /\ pc' = next(f)
                           /\ UNCHANGED <<script, calReads, result>>
                        \/ /\ loc.i = 8
                           /\ Escapes(txns \o LastFails(disable))

\* the device the loop is at
Device == Devices(script)[loc.i]

\* a faulty variant of Record: every reading is counted as passed
Record_CountsAll(name, success) ==
    [loc EXCEPT !.items = (name :> success) @@ loc.items,
                !.passed = loc.passed + 1,
                !.i = loc.i + 1]

\* the loop moves to the next device after recording a reading
Record(name, success) ==
    [loc EXCEPT !.items = IF loc.round = 0 /\ script # I2cSetup
                          THEN (name :> success) @@ loc.items
                          ELSE loc.items,
                !.passed = IF loc.round = 0 /\ success THEN loc.passed + 1
                           ELSE loc.passed,
                !.failed = IF loc.round = 0 /\ ~success THEN loc.failed + 1
                           ELSE loc.failed,
                !.i = loc.i + 1]

\* where the loop continues once the devices before l.i are handled
AfterDevice(l) ==
    IF l.i <= Len(Devices(script)) THEN "select"
    ELSE IF script = TempSensors THEN "ask" ELSE "disable"

\* The channel select that precedes a device read.  test_oled_basic and
\* the functional tests of test_i2c_setup catch the exception of a failed
\* write and report the device as failed; in the sensor loops of
\* test_temperature and test_temp_sensors it leaves the loop.
SelectMuxChannel ==
    /\ pc = "select"
    /\ LET sel == SelectChannel(script, Device.channel)
       IN  \/ /\ ~sel.raised
              /\ bus' = bus \o sel.txns
              /\ pc' = "read"
              /\ UNCHANGED <<script, loc, calReads, result>>
           \/ /\ script \in {Oled, I2cSetup}
              /\ bus' = bus \o (IF sel.raised THEN <<>> ELSE LastFails(sel.txns))
              /\ loc' = Record(Device.name, FALSE)
              /\ pc' = AfterDevice(loc')
              /\ UNCHANGED <<script, calReads, result>>
           \/ /\ script \notin {Oled, I2cSetup}
              /\ Escapes(LastFails(sel.txns))

\* read_sht3x / read_bme280 / bus.read_byte(addr) /
\* bus.read_i2c_block_data(addr, 0x00, 2) on the selected device
ReadDevice ==
    /\ pc = "read"
    /\ \E run \in DeviceRuns(script, Device) :
          /\ bus' = bus \o run.txns
          /\ IF loc.visual /\ run.success /\ loc.luma
             THEN /\ pc' = "display"
                  /\ loc' = loc
             ELSE /\ loc' = Record(Device.name, run.success)
                  /\ pc' = AfterDevice(loc')
    /\ UNCHANGED <<script, calReads, result>>

\* test_oled_display(channel, address, name) of test_oled: its own bus
\* handle, the channel select, the luma device drawing on the display,
\* bus.close(); any exception is caught and reported as the display's
\* failure
TestOledDisplay ==
    /\ pc = "display"
    /\ LET select == Bx(MUX_ADDR, "write_byte", Shl(1, Device.channel), TRUE)
           draw == Bx(Device.address, "device", 0, TRUE)
       IN  \E outcome \in {"no handle", "no select", "no draw", "drawn"} :
              /\ bus' = bus \o
                     CASE outcome = "no handle" -> <<>>
                       [] outcome = "no select" -> <<[select EXCEPT !.ok = FALSE]>>
                       [] outcome = "no draw" -> <<select, [draw EXCEPT !.ok = FALSE]>>
                       [] outcome = "drawn" -> <<select, draw, draw>>
              /\ loc' = Record(Device.name, outcome = "drawn")
    /\ pc' = AfterDevice(loc')
    /\ UNCHANGED <<script, calReads, result>>

\* test_temp_sensors.main: input("Start continuous monitoring? (y/n)") when
\* a sensor works, then continuous_monitoring(bus, interval=2.0), whose
\* loop reads every sensor again after time.sleep(interval)
AskMonitoring ==
    /\ pc = "ask"
    /\ \/ /\ loc.round > 0 \/ loc.passed > 0
          /\ loc.round < MaxRounds
          /\ loc' = [loc EXCEPT !.round = loc.round + 1, !.i = 1]
          /\ pc' = "select"
       \/ /\ loc.round = 0
          /\ pc' = "disable"
          /\ loc' = loc
    /\ UNCHANGED <<script, bus, calReads, result>>

\* except KeyboardInterrupt in continuous_monitoring: the user stops the
\* monitoring, main goes on to its cleanup
KeyboardInterrupt ==
    /\ pc \in {"select", "read", "ask"}
    /\ loc.round > 0
    /\ pc' = "disable"
    /\ UNCHANGED <<script, bus, loc, calReads, result>>

\* bus.write_byte(MUX_ADDR, 0x00)
DisableMux ==
    /\ pc = "disable"
    /\ LET disable == Bx(MUX_ADDR, "write_byte", 0, TRUE)
       IN  \/ /\ bus' = Append(bus, disable)
              /\ pc' = "close"
              /\ UNCHANGED <<script, loc, calReads, result>>
           \/ Escapes(<<[disable EXCEPT !.ok = FALSE]>>)

\* the channels of result['channels'] that hold a device
NonEmpty(items) == {c \in DOMAIN items : items[c] # {}}

\* bus.close(), the status and the message, and the return
CloseBus ==
    /\ pc = "close"
    /\ loc' = [loc EXCEPT
           !.closed = TRUE,
           !.message =
               CASE script = Multiplexer ->
                        loc.message \o <<" | ", loc.passed, " devices found across ",
                                         Cardinality(NonEmpty(loc.items)), " channels">>
                 [] script = Temperature ->
                        <<loc.passed, "/", Len(Devices(script)), " sensors working">>
                 [] script = Oled ->
                        <<loc.passed, "/", Len(Devices(script)), " displays working">>
                        \o (IF ~loc.luma /\ loc.visual
                            THEN <<" (visual test skipped - luma.oled not available)">>
                            ELSE <<>>)
                 [] OTHER -> loc.message]
    /\ Returns(CASE script \in {Multiplexer, I2cSetup} -> "pass"
                 [] script = TempSensors ->
                        IF loc.passed = Len(Devices(script)) THEN "pass" ELSE "fail"
                 [] OTHER -> IF loc.failed > 0 THEN "fail" ELSE "pass",
               None)
    /\ pc' = "done"
    /\ UNCHANGED <<script, bus, calReads>>

NextMux ==
    \/ OpenBus
    \/ ScanI2cBus
    \/ ProbeMux
    \/ ScanChannel
    \/ SelectMuxChannel
    \/ ReadDevice
    \/ TestOledDisplay
    \/ AskMonitoring
    \/ KeyboardInterrupt
    \/ DisableMux
    \/ CloseBus

SpecMux == InitMux /\ [][NextMux]_vars

----------------------------------------------------------------------------
(* Properties of the multiplexer scripts.                                  *)

\* the transaction writes the control register of the multiplexer
IsMuxWrite(t) == t.addr = MUX_ADDR /\ t.op = "write_byte"

\* the last value written to the multiplexer by the first n transactions,
\* -1 when there is none
MuxState(n) ==
    LET W == {i \in 1..n : IsMuxWrite(bus[i]) /\ bus[i].ok}
    IN  IF W = {} THEN -1 ELSE bus[CHOOSE i \in W : \A j \in W : j <= i].val

\* the channels a control byte enables
EnabledChannels(v) == {c \in 0..7 : (v \div Pow2(c)) % 2 = 1}

\* C12: every byte written to the multiplexer address 0x70 is 0x00 or
\* 1 << c for one channel c in 0..7, nothing else is written to that
\* address, and the value the multiplexer holds after any write enables at
\* most one channel.
C12_MuxWritesOneHot ==
    /\ \A i \in 1..Len(bus) :
          bus[i].addr = MUX_ADDR =>
              \/ bus[i].op = "read_byte"
              \/ /\ bus[i].op = "write_byte"
                 /\ bus[i].val \in {0} \cup {Pow2(c) : c \in 0..7}
    /\ MuxState(Len(bus)) # -1 =>
          Cardinality(EnabledChannels(MuxState(Len(bus)))) <= 1

C12_Witness ==
    /\ script = I2cSetup
    /\ pc = "done"
    /\ result.exit = 0
    /\ loc.passed = 2
    /\ \E i \in 1..Len(bus) : IsMuxWrite(bus[i]) /\ bus[i].val = 128 /\ bus[i].ok
    /\ MuxState(Len(bus)) = 0

\* the scripts with a loop over configured sensors or displays
LoopScripts == {Temperature, TempSensors, Oled}

\* the channel the script configures for the device at address a
ChannelOf(s, a) ==
    LET d == CHOOSE d \in {Devices(s)[k] : k \in 1..Len(Devices(s))} : d.address = a
    IN  d.channel

\* every transaction addressed to a configured device happens while the
\* last value written to the multiplexer is 1 << c for its channel c
SelectedWhenAddressed ==
    script \in LoopScripts =>
        \A i \in 1..Len(bus) :
            bus[i].op = "device" =>
                MuxState(i - 1) = Pow2(ChannelOf(script, bus[i].addr))

\* the transactions a step adds to bus
Issued == SubSeq(bus', Len(bus) + 1, Len(bus'))

\* the step belongs to the handling of a device whose channel was selected
DuringDevice == script \in LoopScripts /\ pc \in {"read", "display"}

\* C13 as stated: in the sensor and display loops every transaction
\* addressed to a device configured at (c, a) happens while the last value
\* written to the multiplexer is 1 << c, and between the channel select
\* and the end of that device's transactions there is no multiplexer write.
C13_NoMuxWriteDuringDevice ==
    /\ []SelectedWhenAddressed
    /\ [][DuringDevice => \A k \in 1..Len(Issued) : ~IsMuxWrite(Issued[k])]_vars

\* C13, amended: in the sensor and display loops every transaction
\* addressed to a device configured at (c, a) happens while the last value
\* written to the multiplexer is 1 << c, and between the channel select
\* and the end of that device's transactions no multiplexer write carries
\* another value than 1 << c (test_oled_display selects the channel again).
C13_ChannelHeldDuringDevice ==
    /\ []SelectedWhenAddressed
    /\ [][DuringDevice =>
             \A k \in 1..Len(Issued) :
                 IsMuxWrite(Issued[k]) => Issued[k].val = Pow2(Device.channel)]_vars

C13_Witness ==
    /\ script = Oled
    /\ pc = "done"
    /\ result.status = "pass"
    /\ Len(bus) = 11
    /\ bus[2].op = "device" /\ IsMuxWrite(bus[3]) /\ bus[3].val = 4
    /\ bus[4].op = "device" /\ bus[4].addr = bus[2].addr

----------------------------------------------------------------------------
(* run_diagnostics(verbose, quick) of run_diagnostics.py.  loc holds the   *)
(* TESTS list as it is now (tests) and as it was configured, the enabled   *)
(* tests, the loop index and the results; bus is not used.                 *)

Diagnostics == "run_diagnostics"

\* the 'name' of the entries of TESTS
TestNames == <<"I2C Multiplexer", "Temperature Sensors", "OLED Displays">>

\* a test's 'args': absent or empty, or a dictionary of keyword arguments
NoArgs == <<>>
ArgsChoices == {NoArgs, "visual" :> FALSE, "visual" :> TRUE, "mock" :> TRUE}

\* the configurations of one entry of TESTS
TestConfigs(k) ==
    {[name |-> TestNames[k], enabled |-> f[1], critical |-> f[2], args |-> a] :
        f \in {<<FALSE, FALSE>>, <<TRUE, FALSE>>, <<TRUE, TRUE>>}, a \in ArgsChoices}

\* what loading and running a test module can do: load_test_module returns
\* None; the module has no run_test; run_test raises; run_test returns a
\* dictionary with status 'pass', with status 'fail', or without a status
Outcomes == {"load fails", "no run_test", "raises", "pass", "fail", "no status"}

\* the dictionary run_test returns
Returned_(outcome) ==
    CASE outcome = "pass" -> [status |-> "pass", message |-> "ok"]
      [] outcome = "fail" -> [status |-> "fail", message |-> "not ok"]
      [] outcome = "no status" -> [message |-> "odd"]

\* d.get(key, default)
Get(d, key, default) == IF key \in DOMAIN d THEN d[key] ELSE default

\* a faulty variant of EnabledTests: the enabled flag is ignored
EnabledTests_All(tests) == [j \in 1..Len(tests) |-> j]

\* enabled_tests = [t for t in TESTS if t['enabled']], by position in TESTS
IsEnabled(t) == t.enabled
EnabledTests(tests) ==
    LET idx == [k \in 1..Len(tests) |-> [k |-> k, enabled |-> tests[k].enabled]]
        kept == SelectSeq(idx, IsEnabled)
    IN  [j \in 1..Len(kept) |-> kept[j].k]

InitDiag ==
    /\ script = Diagnostics
    /\ pc = "load"
    /\ bus = <<>>
    /\ \E t1 \in TestConfigs(1), t2 \in TestConfigs(2), t3 \in TestConfigs(3),
          verbose \in BOOLEAN, quick \in BOOLEAN :
          loc = [tests |-> <<t1, t2, t3>>, configured |-> <<t1, t2, t3>>,
                 enabled_tests |-> EnabledTests(<<t1, t2, t3>>),
                 verbose |-> verbose, quick |-> quick,
                 i |-> 1, results |-> <<>>, loaded |-> <<>>, calls |-> <<>>]
    /\ calReads = {}
    /\ result = None

\* the entry of TESTS the loop is at
TestIndex == loc.enabled_tests[loc.i]
TestConfig == loc.tests[TestIndex]

\* the loop goes to its next iteration, or ends when stop (break) or when
\* the enabled tests are exhausted
Iterate(l, stop) ==
    /\ loc' = [l EXCEPT !.i = l.i + 1]
    /\ pc' = IF stop \/ l.i >= Len(l.enabled_tests) THEN "summary" ELSE "load"

\* a faulty variant of FailResult: the failure is recorded as a pass
FailResult_Pass(name, message) == [name |-> name, status |-> "pass", message |-> message]

FailResult(name, message) == [name |-> name, status |-> "fail", message |-> message]

\* module = load_test_module(test_config['module']); on None the failure is
\* recorded and the loop continues
LoadTestModule ==
    /\ pc = "load"
    /\ loc.i <= Len(loc.enabled_tests)
    /\ \/ /\ loc' = [loc EXCEPT !.loaded = Append(loc.loaded, TestIndex)]
          /\ pc' = "hasattr"
       \/ Iterate([loc EXCEPT !.results = Append(loc.results,
                      FailResult(TestConfig.name, "Failed to load test module"))],
                  FALSE)
    /\ UNCHANGED <<script, bus, calReads, result>>

\* no test is enabled: the loop body never runs
NoTests ==
    /\ pc = "load"
    /\ loc.i > Len(loc.enabled_tests)
    /\ pc' = "summary"
    /\ UNCHANGED <<script, bus, loc, calReads, result>>

\* if not hasattr(module, 'run_test'): the failure is recorded and the loop
\* continues
CheckRunTest ==
    /\ pc = "hasattr"
    /\ \/ /\ pc' = "run"
          /\ loc' = loc
       \/ Iterate([loc EXCEPT !.results = Append(loc.results,
                      FailResult(TestConfig.name, "Module missing run_test() function"))],
                  FALSE)
    /\ UNCHANGED <<script, bus, calReads, result>>

\* a faulty variant of QuickArgs: quick mode leaves the arguments alone
QuickArgs_Unchanged(quick, test_args) == test_args

\* if quick and 'visual' in test_args: test_args['visual'] = False
QuickArgs(quick, test_args) ==
    IF quick /\ "visual" \in DOMAIN test_args
    THEN [test_args EXCEPT !["visual"] = FALSE]
    ELSE test_args

\* test_config.get('critical') and result.get('status') == 'fail'
CriticalFailed(test_config, r) ==
    test_config.critical /\ Get(r, "status", "None") = "fail"

\* The try block: test_args is the dictionary of the configuration itself,
\* so the quick-mode assignment is made in TESTS; run_test is called with
\* it; its result is recorded, or the exception it raised.
RunTest ==
    /\ pc = "run"
    /\ LET test_args == QuickArgs(loc.quick, TestConfig.args)
           called(outcome) ==
               [loc EXCEPT !.tests[TestIndex].args = test_args,
                           !.calls = Append(loc.calls,
                               [test |-> TestIndex, args |-> test_args,
                                outcome |-> outcome])]
       IN  \/ \E outcome \in {"pass", "fail", "no status"} :
                 LET r == Returned_(outcome)
                 IN  Iterate([called(outcome) EXCEPT !.results = Append(loc.results,
                                 [name |-> TestConfig.name,
                                  status |-> Get(r, "status", "fail"),
                                  message |-> Get(r, "message", "No message")])],
                             CriticalFailed(TestConfig, r))
           \/ Iterate([called("raises") EXCEPT !.results = Append(loc.results,
                          FailResult(TestConfig.name, <<"Exception: ", "boom">>))],
                      TestConfig.critical)
    /\ UNCHANGED <<script, bus, calReads, result>>

\* a faulty variant of ExitCode: only the last result decides
ExitCode_LastOnly(results) ==
    IF results # <<>> /\ results[Len(results)].status = "fail" THEN 1 ELSE 0

\* failed = sum(1 for r in results if r['status'] == 'fail')
IsFail(r) == r.status = "fail"
ExitCode(results) == IF Len(SelectSeq(results, IsFail)) = 0 THEN 0 ELSE 1

\* a faulty variant of PrintSummary: a run without a passed test is
\* reported as failed
PrintSummary_NeedsPass(results) ==
    LET IsPass(r) == r.status = "pass"
    IN  IF Len(SelectSeq(results, IsFail)) = 0 /\ Len(SelectSeq(results, IsPass)) > 0
        THEN 0 ELSE 1

\* print_summary(results, start_time): the counts it prints, and its return
\* value, 0 when failed == 0 and 1 otherwise
PrintSummary(results) ==
    LET IsPass(r) == r.status = "pass"
        IsSkipped(r) == r.status = "skipped"
        passed == Len(SelectSeq(results, IsPass))
        failed == Len(SelectSeq(results, IsFail))
        skipped == Len(SelectSeq(results, IsSkipped))
    IN  IF failed = 0 THEN 0 ELSE 1

\* return print_summary(results, start_time) when verbose, else the count
\* of the failures and return 0 if failed == 0 else 1
Summary ==
    /\ pc = "summary"
    /\ result' = [exit |-> IF loc.verbose THEN PrintSummary(loc.results)
                           ELSE ExitCode(loc.results)]
    /\ pc' = "done"
    /\ UNCHANGED <<script, bus, loc, calReads>>

NextDiag ==
    \/ LoadTestModule
    \/ NoTests
    \/ CheckRunTest
    \/ RunTest
    \/ Summary

SpecDiag == InitDiag /\ [][NextDiag]_vars

----------------------------------------------------------------------------
(* Properties of run_diagnostics *)

DiagDone == script = Diagnostics /\ pc = "done"

\* the enabled entries of the configured TESTS, by position
EnabledSet == {k \in 1..Len(TestNames) : loc.configured[k].enabled}

\* run_test of test k was called and returned status 'pass'
RanAndPassed(k) ==
    \E c \in 1..Len(loc.calls) : loc.calls[c].test = k /\ loc.calls[c].outcome = "pass"

\* C14: run_diagnostics returns 0 exactly when every enabled test was run
\* and its run_test reported status 'pass', and 1 otherwise; in particular
\* it returns 1 when some result records a failure (a 'fail' status, an
\* exception, a module that did not load or has no run_test).
C14_ExitCode ==
    DiagDone =>
        /\ result.exit \in {0, 1}
        /\ result.exit = 0 <=> \A k \in EnabledSet : RanAndPassed(k)
        /\ (\E j \in 1..Len(loc.results) : loc.results[j].status = "fail")
              => result.exit = 1

C14_Witness ==
    /\ DiagDone
    /\ result.exit = 1
    /\ Len(loc.results) = 3
    /\ loc.results[1].message = "Failed to load test module"
    /\ loc.results[2].status = "pass"
    /\ loc.results[3].status = "pass"

\* the j-th attempted test failed in one of the four ways: its module did
\* not load, it has no run_test, run_test raised, run_test returned 'fail'
FailedSomeWay(j) ==
    \/ loc.results[j].message \in {"Failed to load test module",
                                   "Module missing run_test() function"}
    \/ \E c \in 1..Len(loc.calls) :
          /\ loc.calls[c].test = loc.enabled_tests[j]
          /\ loc.calls[c].outcome \in {"fail", "raises"}

\* C15: once a test configured critical has failed in any of the four ways,
\* run_diagnostics stops: the loop is over, and no later test of TESTS has
\* been loaded or run.
C15_CriticalFailureStops ==
    script = Diagnostics =>
        \A j \in 1..Len(loc.results) :
            (loc.configured[loc.enabled_tests[j]].critical /\ FailedSomeWay(j))
            => /\ j = Len(loc.results)
               /\ pc \in {"summary", "done"}
               /\ \A c \in 1..Len(loc.calls) : loc.calls[c].test <= loc.enabled_tests[j]
               /\ \A c \in 1..Len(loc.loaded) : loc.loaded[c] <= loc.enabled_tests[j]

\* the sequence of positions s is strictly ascending
Ascending(s) == \A a, b \in 1..Len(s) : a < b => s[a] < s[b]

\* C16: the enabled tests are attempted in the order of TESTS; run_test is
\* called at most once per test and never for a disabled test; every
\* attempted test has exactly one result entry; and the loop ends before
\* the last enabled test only after a failure of a critical test.
C16_OrderOnceAndContinue ==
    script = Diagnostics =>
        /\ Ascending(loc.enabled_tests)
        /\ {loc.enabled_tests[j] : j \in 1..Len(loc.enabled_tests)} = EnabledSet
        /\ Len(loc.results) = loc.i - 1
        /\ \A j \in 1..Len(loc.results) :
              loc.results[j].name = TestNames[loc.enabled_tests[j]]
        /\ Ascending([c \in 1..Len(loc.calls) |-> loc.calls[c].test])
        /\ Ascending(loc.loaded)
        /\ \A c \in 1..Len(loc.calls) :
              /\ loc.calls[c].test \in EnabledSet
              /\ loc.calls[c].test \in
                    {loc.enabled_tests[j] : j \in 1..Len(loc.enabled_tests)}
        /\ (pc \in {"summary", "done"} /\ Len(loc.results) < Len(loc.enabled_tests))
              => /\ loc.results # <<>>
                 /\ loc.results[Len(loc.results)].status = "fail"
                 /\ loc.configured[loc.enabled_tests[Len(loc.results)]].critical

C16_Witness ==
    /\ DiagDone
    /\ loc.enabled_tests = <<1, 3>>
    /\ ~loc.configured[1].critical
    /\ Len(loc.results) = 2
    /\ loc.results[1].status = "fail"
    /\ loc.results[2].status = "pass"
    /\ Len(loc.calls) = 2
    /\ loc.calls[1].outcome = "raises"

\* the keyword arguments a and b agree on every key but 'visual'
SameButVisual(a, b) ==
    /\ DOMAIN a = DOMAIN b
    /\ \A key \in DOMAIN a \ {"visual"} : a[key] = b[key]

\* C17: in quick mode a test whose configured args contain 'visual' is
\* called with visual = False and its other arguments as configured, so no
\* call has visual = True; a test without a 'visual' argument, and every
\* test when quick is off, is called with its configured arguments.
C17_QuickForcesVisualOff ==
    script = Diagnostics =>
        \A c \in 1..Len(loc.calls) :
            LET configured == loc.configured[loc.calls[c].test].args
                passed == loc.calls[c].args
            IN  /\ (loc.quick /\ "visual" \in DOMAIN configured)
                      => (SameButVisual(configured, passed) /\ passed["visual"] = FALSE)
                /\ (~loc.quick \/ "visual" \notin DOMAIN configured)
                      => (DOMAIN passed = DOMAIN configured
                          /\ \A key \in DOMAIN configured : passed[key] = configured[key])

C17_Witness ==
    /\ script = Diagnostics
    /\ loc.quick
    /\ Len(loc.calls) = 3
    /\ loc.configured[3].args = ("visual" :> TRUE)
    /\ loc.calls[3].args["visual"] = FALSE
    /\ loc.configured[1].args = ("mock" :> TRUE)
    /\ loc.calls[1].args["mock"] = TRUE
    /\ DOMAIN loc.calls[2].args = {}

----------------------------------------------------------------------------
(* Properties of test_temperature.run_test and test_multiplexer.run_test *)

\* run_test of script s has returned
RunTestDone(s) == script = s /\ pc = "done"

\* the sensors of SENSORS whose reading has success = True
Working == {d \in 1..Len(Devices(Temperature)) :
               /\ Devices(Temperature)[d].name \in DOMAIN loc.items
               /\ loc.items[Devices(Temperature)[d].name]}

\* the write that raised, if the run ended in one
LastWriteFailed(selects) ==
    /\ bus # <<>>
    /\ IsMuxWrite(bus[Len(bus)])
    /\ ~bus[Len(bus)].ok
    /\ selects <=> bus[Len(bus)].val # 0

\* the message of a run that completed without exception
MessageCounts ==
    (RunTestDone(Temperature) /\ loc.closed) =>
        /\ result.message = <<Cardinality(Working), "/", Len(Devices(Temperature)),
                              " sensors working">>
        /\ loc.passed = Cardinality(Working)
        /\ loc.passed + loc.failed = Len(Devices(Temperature))

\* C18 as stated: test_temperature.run_test returns 'pass' exactly when the
\* bus was opened, no exception escaped the sensor loop and every sensor's
\* reading has success = True; a run without exception has the message
\* 'p/n sensors working' with p the working sensors and p + failed = n.
C18_PassIffLoopClean ==
    /\ RunTestDone(Temperature) =>
          (result.status = "pass" <=>
              /\ loc.open
              /\ ~LastWriteFailed(TRUE)
              /\ Cardinality(Working) = Len(Devices(Temperature)))
    /\ MessageCounts

\* C18, amended: 'pass' exactly when the bus was opened, no exception escaped
\* the sensor loop or the multiplexer disable write after it, and every
\* sensor's reading has success = True; the message as stated.
C18_PassIffNoException ==
    /\ RunTestDone(Temperature) =>
          (result.status = "pass" <=>
              /\ loc.open
              /\ ~LastWriteFailed(TRUE)
              /\ ~LastWriteFailed(FALSE)
              /\ Cardinality(Working) = Len(Devices(Temperature)))
    /\ MessageCounts

C18_Witness ==
    /\ RunTestDone(Temperature)
    /\ Cardinality(Working) = 2
    /\ LastWriteFailed(FALSE)
    /\ result.status = "fail"
    /\ ~loc.closed

\* the values written to the multiplexer so far, in order
MuxWrites ==
    LET writes == SelectSeq(bus, IsMuxWrite)
    IN  [j \in 1..Len(writes) |-> writes[j].val]

\* 1 << 0 .. 1 << 7 in ascending order, then 0x00
ScanWrites == [j \in 1..9 |-> IF j <= 8 THEN Pow2(j - 1) ELSE 0]

ProbeFailed == bus # <<>> /\ bus[1].addr = MUX_ADDR /\ ~bus[1].ok

NoWriteFailed == \A i \in 1..Len(bus) : IsMuxWrite(bus[i]) => bus[i].ok

\* C19: test_multiplexer.run_test.  When the probe of 0x70 fails it returns
\* 'fail' with the error 'Multiplexer not found: ...' and nothing has been
\* written to the multiplexer.  The writes to the multiplexer are at all
\* times a prefix of 1 << 0, ..., 1 << 7, 0x00, and after the probe no
\* transaction other than these writes is addressed to 0x70.  When the
\* probe succeeds and no write fails, all nine writes are made and the
\* result is 'pass' with result['channels'] having exactly the keys 0..7.
C19_MultiplexerRunTest ==
    script = Multiplexer =>
        /\ Len(MuxWrites) <= 9
        /\ \A j \in 1..Len(MuxWrites) : MuxWrites[j] = ScanWrites[j]
        /\ \A i \in 2..Len(bus) : bus[i].addr = MUX_ADDR => IsMuxWrite(bus[i])
        /\ (pc = "done" /\ ProbeFailed) =>
              /\ result.status = "fail"
              /\ result.error = <<"Multiplexer not found: ">> \o OSErrorText
              /\ MuxWrites = <<>>
        /\ (pc = "done" /\ loc.open /\ ~ProbeFailed /\ NoWriteFailed) =>
              /\ MuxWrites = ScanWrites
              /\ result.status = "pass"
              /\ DOMAIN result.items = 0..7

C19_Witness ==
    /\ RunTestDone(Multiplexer)
    /\ result.status = "pass"
    /\ MuxWrites = ScanWrites
    /\ Len(bus) = 938
    /\ loc.passed = 3
    /\ result.items[7] = {60, 83}

----------------------------------------------------------------------------
(* run_test(quick, mock) of test_klipper.py.  loc holds the arguments,     *)
(* REQUESTS_AVAILABLE, the result dictionary being built (r), the state    *)
(* read from Moonraker and the HTTP requests made; bus is not used.        *)

Klipper == "test_klipper"

InitKlipper ==
    /\ script = Klipper
    /\ pc = "entry"
    /\ bus = <<>>
    /\ \E quick \in BOOLEAN, mock \in BOOLEAN, available \in BOOLEAN :
          loc = [quick |-> quick, mock |-> mock, REQUESTS_AVAILABLE |-> available,
                 r |-> [status |-> "fail", message |-> <<>>, klipper |-> <<>>,
                        error |-> None],
                 klipper_state |-> "", klipper_msg |-> "", requests |-> <<>>]
    /\ calReads = {}
    /\ result = None

\* return result
ReturnResult(r) ==
    /\ result' = r
    /\ pc' = "done"

\* the dictionary d with d[key] = value
SetKey(d, key, value) == (key :> value) @@ d

\* the simulated success returned when mock is set
MockResult ==
    [status |-> "pass",
     message |-> <<"Klipper Ready (MOCK) | mcu: v0.10.0-mock">>,
     klipper |-> SetKey(SetKey(SetKey(<<>>,
                    "connection", [success |-> TRUE, message |-> "Mock connection"]),
                    "state", "ready"),
                    "mcu", [success |-> TRUE,
                            mcus |-> ("mcu" :> [mcu_version |-> "0.10.0-mock"])]),
     error |-> None]

\* the mock branch and the check of REQUESTS_AVAILABLE
Entry ==
    /\ pc = "entry"
    /\ IF loc.mock
       THEN /\ ReturnResult(MockResult)
            /\ loc' = loc
       ELSE IF ~loc.REQUESTS_AVAILABLE
       THEN /\ loc' = [loc EXCEPT
                   !.r.error = <<"requests library not installed (pip install requests)">>,
                   !.r.message = <<"Missing dependencies">>]
            /\ ReturnResult(loc'.r)
       ELSE /\ pc' = "connection"
            /\ loc' = loc
            /\ result' = result
    /\ UNCHANGED <<script, bus, calReads>>

\* what check_moonraker_connection() returns: HTTP 200 with the printer
\* info (state and state_message; a missing state reads as 'unknown'),
\* another HTTP status, a refused connection, any other exception
ConnResults ==
    {[success |-> TRUE, message |-> "Moonraker connected",
      data |-> [state |-> s, state_message |-> m]] :
         s \in {"ready", "startup", "error", "unknown"},
         m \in {"", "Printer is not ready"}}
    \cup {[success |-> FALSE, error |-> <<"HTTP ", 503>>,
           message |-> "Moonraker returned error"],
          [success |-> FALSE, error |-> <<"Connection refused">>,
           message |-> "Moonraker not running (check service)"],
          [success |-> FALSE, error |-> <<"timed out">>, message |-> ""]}

\* conn_result = check_moonraker_connection()
CheckMoonrakerConnection ==
    /\ pc = "connection"
    /\ \E conn_result \in ConnResults :
          /\ loc' = [loc EXCEPT
                 !.r.klipper = SetKey(loc.r.klipper, "connection", conn_result),
                 !.requests = Append(loc.requests, "/printer/info")]
          /\ pc' = IF conn_result.success THEN "state" ELSE "usb"
    /\ UNCHANGED <<script, bus, calReads, result>>

\* what check_usb_devices() returns: no /dev/serial/by-id, a listing
\* error, a Klipper device, other serial devices, an empty directory
UsbResults ==
    {[success |-> FALSE, message |-> <<"No serial devices found (no /dev/serial/by-id)">>,
      devices |-> <<>>],
     [success |-> FALSE, message |-> <<"Could not list /dev/serial/by-id">>,
      devices |-> <<>>],
     [success |-> TRUE, message |-> <<"Found device: ", "usb-Klipper_stm32f446">>,
      devices |-> <<"usb-Klipper_stm32f446">>],
     [success |-> FALSE,
      message |-> <<"Found serial devices, but not recognized as Klipper: ", "ttyACM0">>,
      devices |-> <<"ttyACM0">>],
     [success |-> FALSE, message |-> <<"No devices in /dev/serial/by-id">>,
      devices |-> <<>>]}

\* the branch of a failed connection: usb_result = check_usb_devices(), the
\* message and the error, return result
CheckUsbDevices ==
    /\ pc = "usb"
    /\ \E usb_result \in UsbResults :
          /\ loc' = [loc EXCEPT
                 !.r.klipper = SetKey(loc.r.klipper, "usb", usb_result),
                 !.r.status = "fail",
                 !.r.message =
                     IF usb_result.success
                     THEN <<"Hardware detected (", usb_result.devices[1],
                            "), but Moonraker not running.">>
                     ELSE <<"Moonraker unreachable AND ">> \o usb_result.message,
                 !.r.error =
                     IF usb_result.success
                     THEN <<"Service 'moonraker' not running or not installed">>
                     ELSE loc.r.klipper["connection"].error]
          /\ ReturnResult(loc'.r)
    /\ UNCHANGED <<script, bus, calReads>>

\* klipper_state and klipper_msg of the printer info, and the failure of a
\* state other than 'ready'
KlipperState ==
    /\ pc = "state"
    /\ LET data == loc.r.klipper["connection"].data
           message == <<"Klipper state: ", data.state>>
                      \o (IF data.state_message # ""
                          THEN <<" (", data.state_message, ")">> ELSE <<>>)
       IN  loc' = [loc EXCEPT
               !.klipper_state = data.state,
               !.klipper_msg = data.state_message,
               !.r.klipper = SetKey(loc.r.klipper, "state", data.state),
               !.r.status = IF data.state # "ready" THEN "fail" ELSE loc.r.status,
               !.r.message = IF data.state # "ready" THEN message ELSE loc.r.message]
    /\ pc' = "mcu"
    /\ UNCHANGED <<script, bus, calReads, result>>

\* what check_mcu_status() returns, with the requests it made: the object
\* list fails, lists no mcu, the query answers (with or without an
\* mcu_version), the query fails, a request raises
McuResults ==
    {[requests |-> 1, success |-> FALSE, error |-> "Failed to list objects", mcus |-> <<>>],
     [requests |-> 1, success |-> FALSE,
      error |-> "No MCU objects found in Klipper config", mcus |-> <<>>],
     [requests |-> 2, success |-> TRUE, error |-> "",
      mcus |-> <<[name |-> "mcu", mcu_version |-> "v0.12.0"]>>],
     [requests |-> 2, success |-> TRUE, error |-> "",
      mcus |-> <<[name |-> "mcu", mcu_version |-> "unknown"],
                 [name |-> "mcu rpi", mcu_version |-> "v0.12.0"]>>],
     [requests |-> 2, success |-> FALSE, error |-> "Failed to query MCU status",
      mcus |-> <<>>],
     [requests |-> 1, success |-> FALSE, error |-> "timed out", mcus |-> <<>>]}

\* the mcu_info list: "name: vversion" of every MCU
McuInfo(mcus) == [j \in 1..Len(mcus) |-> <<mcus[j].name, ": v", mcus[j].mcu_version>>]

\* a faulty variant of AfterMcu: the Klipper state is not looked at
AfterMcu_IgnoresState(r, klipper_state, mcu_result) ==
    IF mcu_result.success
    THEN [r EXCEPT !.status = "pass",
                   !.message = <<"Klipper Ready | ", McuInfo(mcu_result.mcus)>>]
    ELSE r

\* the status and the message after the MCU check
AfterMcu(r, klipper_state, mcu_result) ==
    IF mcu_result.success
    THEN IF klipper_state = "ready"
         THEN [r EXCEPT !.status = "pass",
                        !.message = <<"Klipper Ready | ", McuInfo(mcu_result.mcus)>>]
         ELSE r
    ELSE IF r.status # "fail"
         THEN [r EXCEPT !.status = "fail",
                        !.message = <<"MCU check failed: ", mcu_result.error>>]
         ELSE r

\* mcu_result = check_mcu_status() and what follows from it
CheckMcuStatus ==
    /\ pc = "mcu"
    /\ \E mcu_result \in McuResults :
          loc' = [loc EXCEPT
              !.r = AfterMcu([loc.r EXCEPT !.klipper =
                                 SetKey(loc.r.klipper, "mcu", mcu_result)],
                             loc.klipper_state, mcu_result),
              !.requests = loc.requests \o
                  SubSeq(<<"/printer/objects/list", "/printer/objects/query">>,
                         1, mcu_result.requests)]
    /\ pc' = "gcode"
    /\ UNCHANGED <<script, bus, calReads, result>>

\* a faulty variant of SendGcodeCommand: a failed send fails the test
SendGcodeCommand_FailsTest ==
    /\ pc = "gcode"
    /\ IF loc.r.status = "pass"
       THEN \E success \in BOOLEAN :
               loc' = [loc EXCEPT
                   !.requests = Append(loc.requests, "/printer/gcode/script"),
                   !.r.status = IF success THEN "pass" ELSE "fail",
                   !.r.message = IF success THEN loc.r.message
                                 ELSE loc.r.message \o <<" (G-code send failed)">>]
       ELSE loc' = loc
    /\ result' = loc'.r
    /\ pc' = "done"
    /\ UNCHANGED <<script, bus, calReads>>

\* send_gcode_command("M115") when the status is 'pass', and return result
SendGcodeCommand ==
    /\ pc = "gcode"
    /\ IF loc.r.status = "pass"
       THEN \E success \in BOOLEAN :
               loc' = [loc EXCEPT
                   !.requests = Append(loc.requests, "/printer/gcode/script"),
                   !.r.message = IF success THEN loc.r.message
                                 ELSE loc.r.message \o <<" (G-code send failed)">>]
       ELSE loc' = loc
    /\ ReturnResult(loc'.r)
    /\ UNCHANGED <<script, bus, calReads>>

NextKlipper ==
    \/ Entry
    \/ CheckMoonrakerConnection
    \/ CheckUsbDevices
    \/ KlipperState
    \/ CheckMcuStatus
    \/ SendGcodeCommand

SpecKlipper == InitKlipper /\ [][NextKlipper]_vars

----------------------------------------------------------------------------
(* Properties of test_klipper.run_test *)

\* the check recorded under key in result['klipper'] was made and succeeded
Succeeded(key) ==
    /\ key \in DOMAIN result.klipper
    /\ result.klipper[key].success

\* C20: test_klipper.run_test(mock = False) returns 'pass' exactly when the
\* Moonraker connection check succeeded, the Klipper state it reported is
\* 'ready' and the MCU status query succeeded; in every other case, and
\* when the requests library is missing, it returns 'fail'.
C20_KlipperPass ==
    (script = Klipper /\ pc = "done" /\ ~loc.mock) =>
        /\ result.status \in {"pass", "fail"}
        /\ result.status = "pass" <=>
              /\ Succeeded("connection")
              /\ result.klipper["connection"].data.state = "ready"
              /\ Succeeded("mcu")
        /\ ~loc.REQUESTS_AVAILABLE =>
              (result.status = "fail" /\ loc.requests = <<>>)

C20_Witness ==
    /\ script = Klipper
    /\ pc = "done"
    /\ ~loc.mock
    /\ result.status = "fail"
    /\ Succeeded("connection")
    /\ Succeeded("mcu")
    /\ result.klipper["state"] = "startup"
    /\ Len(loc.requests) = 3

----------------------------------------------------------------------------
(* Calls of PCA9548A.select_channel(channel) of test_i2c_setup.py with any *)
(* integer channel.  loc holds the control register of the multiplexer     *)
(* (selected) and the calls made; bus holds the bus transactions.          *)

Pca9548a == "PCA9548A"

\* the channels passed are -ChannelSpan .. 7 + ChannelSpan
ChannelSpan == 3

MaxCalls == 2

InitSelect ==
    /\ script = Pca9548a
    /\ pc = "call"
    /\ bus = <<>>
    /\ \E selected \in {0} \cup {Pow2(c) : c \in 0..7} :
          loc = [selected |-> selected, calls |-> <<>>]
    /\ calReads = {}
    /\ result = None

\* mux.select_channel(channel): the range check raises ValueError before
\* any bus access; the write may itself raise, and then the register
\* keeps its value
SelectChannelCall ==
    /\ pc = "call"
    /\ Len(loc.calls) < MaxCalls
    /\ \E channel \in (0 - ChannelSpan)..(7 + ChannelSpan), ok \in BOOLEAN :
          LET sel == SelectChannel(I2cSetup, channel)
              txns == IF ok \/ sel.raised THEN sel.txns ELSE LastFails(sel.txns)
              after == IF sel.raised \/ ~ok THEN loc.selected ELSE txns[1].val
          IN  /\ ok \/ ~sel.raised
              /\ bus' = bus \o txns
              /\ loc' = [selected |-> after,
                         calls |-> Append(loc.calls,
                             [channel |-> channel, before |-> loc.selected,
                              after |-> after, txns |-> txns,
                              raised |-> IF sel.raised THEN "ValueError"
                                         ELSE IF ok THEN "" ELSE "OSError"])]
              /\ result' = [raised |-> sel.raised \/ ~ok]
    /\ UNCHANGED <<script, pc, calReads>>

NextSelect == SelectChannelCall

SpecSelect == InitSelect /\ [][NextSelect]_vars

\* C21: select_channel raises ValueError for every channel below 0 or above
\* 7, without a bus transaction and with the multiplexer's register as it
\* was; for a channel c in 0..7 it makes exactly one bus transaction, the
\* write of 1 << c to the multiplexer, and raises no ValueError.
C21_SelectChannelRange ==
    script = Pca9548a =>
        \A k \in 1..Len(loc.calls) :
            LET call == loc.calls[k]
            IN  IF call.channel < 0 \/ call.channel > 7
                THEN /\ call.raised = "ValueError"
                     /\ call.txns = <<>>
                     /\ call.after = call.before
                ELSE /\ call.raised # "ValueError"
                     /\ Len(call.txns) = 1
                     /\ IsMuxWrite(call.txns[1])
                     /\ call.txns[1].val = Pow2(call.channel)
                     /\ call.txns[1].ok => call.after = Pow2(call.channel)

C21_Witness ==
    /\ script = Pca9548a
    /\ Len(loc.calls) = 2
    /\ loc.calls[1].channel = 5
    /\ loc.calls[1].txns[1].ok
    /\ loc.calls[2].channel = 8
    /\ loc.calls[2].raised = "ValueError"
    /\ loc.selected = 32
    /\ Len(bus) = 1

----------------------------------------------------------------------------
(* read_sht3x(bus, addr) of test_temp_sensors.py and test_temperature.py,  *)
(* and the two sensor reads taken together.  loc holds the six bytes the   *)
(* sensor answers and the values decoded from them.                        *)

\* the raw 16-bit values the sensor may answer
NumShtRaw == 4
ShtRaw(k) == (k * 21845) % 65536

\* the six bytes of a measurement: temperature, CRC, humidity, CRC
ShtBlock(t, h) == <<t \div 256, t % 256, 0, h \div 256, h % 256, 0>>

InitSht ==
    /\ script \in Scripts
    /\ pc = "sht_measure"
    /\ bus = <<>>
    /\ \E a, b \in 0..(NumShtRaw - 1) : loc = [data |-> ShtBlock(ShtRaw(a), ShtRaw(b))]
    /\ calReads = {}
    /\ result = None

\* what the except clause of read_sht3x returns
ShtFailure(s, text) ==
    IF s = TempSensors
    THEN [temperature |-> None, humidity |-> None, success |-> FALSE, error |-> text]
    ELSE [success |-> FALSE, error |-> text]

\* a transaction of read_sht3x that raises
ShtFails(op, reg, arg) ==
    /\ bus' = Append(bus, Txn(op, reg, arg, FALSE))
    /\ result' = ShtFailure(script, OSErrorText)
    /\ pc' = "done"
    /\ UNCHANGED <<script, loc, calReads>>

\* bus.write_i2c_block_data(addr, 0x24, [0x00])
ShtMeasure ==
    /\ pc = "sht_measure"
    /\ \/ /\ bus' = Append(bus, Txn("write_i2c_block_data", 36, <<0>>, TRUE))
          /\ pc' = "sht_read"
          /\ UNCHANGED <<script, loc, calReads, result>>
       \/ ShtFails("write_i2c_block_data", 36, <<0>>)

\* temp_c = -45 + (175 * temp_raw / 65535.0) and
\* humidity = 100 * hum_raw / 65535.0 of the bytes read
ShtDecode(data) ==
    LET temp_raw == BitOr(Shl(At(data, 0), 8), At(data, 1))
        hum_raw == BitOr(Shl(At(data, 3), 8), At(data, 4))
    IN  [temperature |-> FAdd(F(-45), FDiv(F(175 * temp_raw), F(65535))),
         humidity |-> FDiv(F(100 * hum_raw), F(65535)),
         success |-> TRUE]

\* data = bus.read_i2c_block_data(addr, 0x00, 6), the conversion and the
\* return
ShtRead ==
    /\ pc = "sht_read"
    /\ \/ /\ bus' = Append(bus, Txn("read_i2c_block_data", 0, 6, TRUE))
          /\ result' = ShtDecode(loc.data)
          /\ pc' = "done"
          /\ UNCHANGED <<script, loc, calReads>>
       \/ ShtFails("read_i2c_block_data", 0, 6)

NextSht ==
    \/ ShtMeasure
    \/ ShtRead

\* a call of read_bme280 or a call of read_sht3x
InitReads == Init \/ InitSht

NextReads == Next \/ NextSht

SpecReads == InitReads /\ [][NextReads]_vars

\* the call is one of read_sht3x
IsShtCall == "data" \in DOMAIN loc /\ "chip_id" \notin DOMAIN loc

\* the calibration parse of test_temp_sensors raises on a BME280
DecodeRaises ==
    /\ script = TempSensors
    /\ "is_bme280" \in DOMAIN loc
    /\ loc.is_bme280
    /\ AllOk

\* C22: read_sht3x and read_bme280 always return a result.  When a bus
\* transaction of the call raised, or the decoding raised, the result has
\* success = False and a non-empty 'error' text; a result with success =
\* True is returned only when every transaction succeeded.
C22_ReadsNeverRaise ==
    Returned =>
        /\ "success" \in DOMAIN result
        /\ (~AllOk \/ DecodeRaises) =>
              /\ result.success = FALSE
              /\ "error" \in DOMAIN result
              /\ result.error # <<>>
        /\ result.success => (AllOk /\ "error" \notin DOMAIN result)

C22_Witness ==
    /\ Returned
    /\ IsShtCall
    /\ Len(bus) = 2
    /\ bus[1].ok
    /\ ~bus[2].ok
    /\ result.success = FALSE
    /\ result.error = OSErrorText

----------------------------------------------------------------------------
(* Two calls of run_diagnostics in one process: the second call finds      *)
(* TESTS as the first call left it.  loc.first keeps what the first call   *)
(* did.                                                                    *)

\* TESTS as it is in the source, with either value of the display test's
\* 'visual' argument, all tests enabled or all disabled
ShippedTests(enabled, visual) ==
    <<[name |-> TestNames[1], enabled |-> enabled, critical |-> TRUE, args |-> NoArgs],
      [name |-> TestNames[2], enabled |-> enabled, critical |-> FALSE, args |-> NoArgs],
      [name |-> TestNames[3], enabled |-> enabled, critical |-> FALSE,
       args |-> ("visual" :> visual)]>>

InitTwice ==
    /\ script = Diagnostics
    /\ pc = "load"
    /\ bus = <<>>
    /\ \E enabled \in BOOLEAN, visual \in BOOLEAN, verbose \in BOOLEAN, quick \in BOOLEAN :
          loc = [tests |-> ShippedTests(enabled, visual),
                 configured |-> ShippedTests(enabled, visual),
                 enabled_tests |-> EnabledTests(ShippedTests(enabled, visual)),
                 verbose |-> verbose, quick |-> quick,
                 i |-> 1, results |-> <<>>, loaded |-> <<>>, calls |-> <<>>,
                 run |-> 1, first |-> <<>>]
    /\ calReads = {}
    /\ result = None

\* what a call did: the modules loaded, the calls of run_test with their
\* arguments and outcomes, the results, the value returned
Done(l, r) ==
    [verbose |-> l.verbose, quick |-> l.quick, loaded |-> l.loaded,
     calls |-> l.calls, results |-> l.results, exit |-> r.exit, tests |-> l.tests]

\* the first call has returned; run_diagnostics is called again, with the
\* other verbosity and either value of quick
SecondCall ==
    /\ pc = "done"
    /\ loc.run = 1
    /\ \E quick \in BOOLEAN :
          loc' = [loc EXCEPT !.run = 2,
                             !.first = Done(loc, result),
                             !.verbose = ~loc.verbose,
                             !.quick = quick,
                             !.enabled_tests = EnabledTests(loc.tests),
                             !.i = 1, !.results = <<>>, !.loaded = <<>>,
                             !.calls = <<>>]
    /\ pc' = "load"
    /\ result' = None
    /\ UNCHANGED <<script, bus, calReads>>

NextTwice ==
    \/ NextDiag
    \/ SecondCall

SpecTwice == InitTwice /\ [][NextTwice]_vars

----------------------------------------------------------------------------
(* Further properties of the multiplexer scripts *)

\* C23: when test_temperature.run_test has returned after opening the bus,
\* result['sensors'] has an entry for every sensor of SENSORS, whatever bus
\* transaction failed while a sensor was handled (its channel select or a
\* transaction of its read).
C23_EverySensorRecorded ==
    (RunTestDone(Temperature) /\ loc.open) =>
        \A d \in 1..Len(Devices(Temperature)) :
            Devices(Temperature)[d].name \in DOMAIN result.items

\* C25: whenever run_test of test_multiplexer, test_temperature or test_oled
\* returns after it opened the bus, the bus handle has been closed and the
\* last value written to the multiplexer is 0x00.
C25_ClosedAndDisabledOnReturn ==
    (script \in {Multiplexer, Temperature, Oled} /\ pc = "done" /\ loc.open) =>
        /\ loc.closed
        /\ MuxState(Len(bus)) = 0

----------------------------------------------------------------------------
(* Further properties of run_diagnostics *)

\* the position in results of the test of TESTS position k, 0 if none
ResultOf(k) ==
    LET J == {j \in 1..Len(loc.results) : loc.enabled_tests[j] = k}
    IN  IF J = {} THEN 0 ELSE CHOOSE j \in J : TRUE

\* C24: an exception raised by run_test does not leave run_diagnostics: the
\* test has a result with status 'fail' and the message 'Exception: ...',
\* and the value returned at the end of the run is 1.
C24_ExceptionsRecorded ==
    script = Diagnostics =>
        \A c \in 1..Len(loc.calls) :
            loc.calls[c].outcome = "raises" =>
                /\ ResultOf(loc.calls[c].test) # 0
                /\ loc.results[ResultOf(loc.calls[c].test)].status = "fail"
                /\ loc.results[ResultOf(loc.calls[c].test)].message
                      = <<"Exception: ", "boom">>
                /\ pc = "done" => result.exit = 1

C24_Witness ==
    /\ DiagDone
    /\ result.exit = 1
    /\ loc.enabled_tests = <<1, 2, 3>>
    /\ Len(loc.calls) = 2
    /\ loc.calls[1].outcome = "pass"
    /\ loc.calls[2].outcome = "raises"
    /\ loc.configured[2].critical
    /\ Len(loc.results) = 2

\* both calls of run_diagnostics have returned
BothDone == script = Diagnostics /\ pc = "done" /\ "run" \in DOMAIN loc /\ loc.run = 2

\* what loading and running the test at TESTS position k did in the call d
OutcomeAt(d, k) ==
    LET C == {c \in 1..Len(d.calls) : d.calls[c].test = k}
    IN  IF C # {} THEN d.calls[CHOOSE c \in C : TRUE].outcome
        ELSE IF \E c \in 1..Len(d.loaded) : d.loaded[c] = k THEN "no run_test"
        ELSE "load fails"

\* the calls a and b saw the same outcome for every test both attempted
SameOutcomes(a, b) ==
    \A j \in 1..Len(loc.enabled_tests) :
        (j <= Len(a.results) /\ j <= Len(b.results))
        => OutcomeAt(a, loc.enabled_tests[j]) = OutcomeAt(b, loc.enabled_tests[j])

\* C26: two calls of run_diagnostics that differ in verbose, have the same
\* quick and see the same outcomes of the test modules load the same
\* modules, call the same run_test functions with the same arguments in
\* the same order, stop at the same test and return the same exit code.
C26_VerboseOnlyPrints ==
    (BothDone /\ loc.quick = loc.first.quick /\ SameOutcomes(loc.first, Done(loc, result)))
    => /\ loc.verbose # loc.first.verbose
       /\ loc.loaded = loc.first.loaded
       /\ loc.calls = loc.first.calls
       /\ Len(loc.results) = Len(loc.first.results)
       /\ \A j \in 1..Len(loc.results) :
             /\ loc.results[j].name = loc.first.results[j].name
             /\ loc.results[j].status = loc.first.results[j].status
       /\ result.exit = loc.first.exit

C26_Witness ==
    /\ BothDone
    /\ loc.quick = loc.first.quick
    /\ SameOutcomes(loc.first, Done(loc, result))
    /\ loc.first.verbose
    /\ Len(loc.results) = 3
    /\ Len(loc.calls) = 2
    /\ loc.calls[1].outcome = "pass"
    /\ OutcomeAt(loc.first, 2) = "load fails"
    /\ loc.calls[2].outcome = "no status"
    /\ result.exit = 1

\* C27: run_diagnostics leaves TESTS as configured, so a call with quick =
\* False that follows a call with quick = True passes every test the
\* arguments that were configured.
C27_TestsUnchanged ==
    (script = Diagnostics /\ "run" \in DOMAIN loc) =>
        /\ loc.tests = loc.configured
        /\ (loc.run = 2 /\ ~loc.quick) =>
              \A c \in 1..Len(loc.calls) :
                  loc.calls[c].args = loc.configured[loc.calls[c].test].args

----------------------------------------------------------------------------
(* Further properties of test_klipper.run_test *)

KlipperDone == script = Klipper /\ pc = "done" /\ ~loc.mock

\* C28: a result of run_test(mock = False) with status 'fail' has a
\* non-empty message; when the Klipper state is 'ready' and the MCU status
\* query failed, the message is 'MCU check failed: ' and the query's error.
C28_FailHasMessage ==
    (KlipperDone /\ result.status = "fail") =>
        /\ result.message # <<>>
        /\ (Succeeded("connection") /\ loc.klipper_state = "ready"
               /\ "mcu" \in DOMAIN result.klipper)
              => result.message = <<"MCU check failed: ", result.klipper["mcu"].error>>

\* the positions in the request log of the G-code request
GcodeSent == {k \in 1..Len(loc.requests) : loc.requests[k] = "/printer/gcode/script"}

\* C29: the M115 G-code request is made at most once per call, as the last
\* request, after the connection check, the two requests of the MCU status
\* query, with the connection and the MCU query successful and the state
\* 'ready'; whether the send succeeds or fails the returned status is
\* 'pass', a failed send only appends ' (G-code send failed)' to the message.
C29_GcodeLastAndHarmless ==
    (script = Klipper /\ GcodeSent # {}) =>
        /\ GcodeSent = {4}
        /\ loc.requests = <<"/printer/info", "/printer/objects/list",
                            "/printer/objects/query", "/printer/gcode/script">>
        /\ ~loc.mock
        /\ pc = "done"
        /\ Succeeded("connection")
        /\ Succeeded("mcu")
        /\ result.klipper["state"] = "ready"
        /\ result.status = "pass"
        /\ LET ready == <<"Klipper Ready | ", McuInfo(result.klipper["mcu"].mcus)>>
           IN  result.message \in {ready, ready \o <<" (G-code send failed)">>}

C29_Witness ==
    /\ KlipperDone
    /\ GcodeSent = {4}
    /\ result.status = "pass"
    /\ Len(result.message) = 3
    /\ result.message[3] = " (G-code send failed)"

----------------------------------------------------------------------------
(* continuous_monitoring(bus, interval, duration) of test_temp_sensors.py. *)
(* Time is counted in whole ticks of time.time(); loc holds the duration   *)
(* argument, the clock, start_time, current_time and the elapsed times at  *)
(* which the sensors were read.                                            *)

Monitoring == "continuous_monitoring"

\* duration = None
NoDuration == -1

MaxDuration == 3
MaxTime == 5
MaxAdvance == 2

InitMonitor ==
    /\ script = Monitoring
    /\ pc = "check"
    /\ bus = <<>>
    /\ \E duration \in {NoDuration} \cup 0..MaxDuration, start_time \in 0..1 :
          loc = [duration |-> duration, now |-> start_time, start_time |-> start_time,
                 current_time |-> 0, reads |-> <<>>, interrupted |-> FALSE]
    /\ calReads = {}
    /\ result = None

\* the truth value of the duration argument: None and 0 are false
Truthy(duration) == duration # NoDuration /\ duration # 0

\* current_time = time.time() - start_time;
\* if duration and current_time >= duration: break
MonitorCheck ==
    /\ pc = "check"
    /\ LET current_time == loc.now - loc.start_time
       IN  /\ loc' = [loc EXCEPT !.current_time = current_time]
           /\ IF Truthy(loc.duration) /\ current_time >= loc.duration
              THEN /\ pc' = "returned"
                   /\ result' = [returned |-> TRUE]
              ELSE /\ pc' = "read"
                   /\ result' = result
    /\ UNCHANGED <<script, bus, calReads>>

\* for sensor in SENSORS: the channel select and the read of each sensor,
\* which returns a success or a failure
MonitorRead ==
    /\ pc = "read"
    /\ \E ok \in BOOLEAN :
          bus' = bus \o
              <<Bx(MUX_ADDR, "write_byte", Shl(1, Devices(TempSensors)[1].channel), TRUE),
                Bx(Devices(TempSensors)[1].address, "read_sht3x", None, ok),
                Bx(MUX_ADDR, "write_byte", Shl(1, Devices(TempSensors)[2].channel), TRUE),
                Bx(Devices(TempSensors)[2].address, "read_bme280", None, ok)>>
    /\ loc' = [loc EXCEPT !.reads = Append(loc.reads, loc.current_time)]
    /\ pc' = "sleep"
    /\ UNCHANGED <<script, calReads, result>>

\* time.sleep(interval): the clock advances
MonitorSleep ==
    /\ pc = "sleep"
    /\ \E k \in 1..MaxAdvance :
          /\ loc.now + k <= MaxTime
          /\ loc' = [loc EXCEPT !.now = loc.now + k]
    /\ pc' = "check"
    /\ UNCHANGED <<script, bus, calReads, result>>

\* Ctrl+C: the except clause ends the function
MonitorInterrupt ==
    /\ pc \in {"check", "read", "sleep"}
    /\ loc' = [loc EXCEPT !.interrupted = TRUE]
    /\ pc' = "returned"
    /\ result' = [returned |-> TRUE]
    /\ UNCHANGED <<script, bus, calReads>>

NextMonitor ==
    \/ MonitorCheck
    \/ MonitorRead
    \/ MonitorSleep
    \/ MonitorInterrupt

SpecMonitor == InitMonitor /\ [][NextMonitor]_vars

\* C30: with a duration d >= 0 the sensors are never read in an iteration
\* whose elapsed time is at least d, and the function returns without an
\* interrupt only at an elapsed time of at least d; with duration None it
\* returns only when interrupted.
C30_ExitsAtDuration ==
    script = Monitoring =>
        /\ loc.duration # NoDuration =>
              /\ \A k \in 1..Len(loc.reads) : loc.reads[k] < loc.duration
              /\ pc = "read" => loc.current_time < loc.duration
        /\ (pc = "returned" /\ ~loc.interrupted) =>
              (loc.duration # NoDuration /\ loc.current_time >= loc.duration)

====
